---- MODULE Spec2Model ----
(***************************************************************************)
(* A model of k1LoW/curlreq: Parse turns a curl command into a Parsed      *)
(* value (URL, Method, Header, Body).                                      *)
(*                                                                         *)
(* Go strings are modelled as sequences of one-character strings, so that  *)
(* prefixes, indexes, slices and trimming are computed as the code         *)
(* computes them.  A run of the model is one call of Parse: cmdToArgs,     *)
(* then the scan of expandCurlDataFiles, then the token loop of Parse,     *)
(* then the rule after the loop.  A run-time panic of the Go code (index   *)
(* or slice bounds out of range) is an outcome of its own, distinct from   *)
(* a returned error.                                                       *)
(***************************************************************************)
EXTENDS Integers, Sequences, FiniteSets, TLC

VARIABLES
    cmd,        \* the arguments Parse was called with (cmd ...string)
    files,      \* the file system: path -> contents; a path outside its domain does not exist
    args,       \* the token sequence being rewritten, then interpreted
    pc,         \* "start", "expand", "loop", "done"
    i,          \* expand: the 0-based scan index; loop: number of tokens already ranged over
    out,        \* the *Parsed under construction
    state,      \* the pending state of the token loop
    ret,        \* what the call produced: nothing yet, a return, or a panic
    hist,       \* history: for each token the loop has handled, the case that ran
    prev,       \* history: state and model before the last token of the loop
    req,        \* what a call of Request on the returned *Parsed produced
    doc,        \* what a call of MarshalJSON on the returned *Parsed produced
    calls,      \* concurrent calls of Parse: call -> its arguments, locals and result
    heap        \* the Parsed values the concurrent calls allocated; a *Parsed is a place in it

vars == <<cmd, files, args, pc, i, out, state, ret, hist, prev, req, doc, calls, heap>>

----------------------------------------------------------------------------
(* Strings *)

\* The string constants of the source, as character sequences.
sCurl == <<"c","u","r","l">>
sHttp == <<"h","t","t","p",":","/","/">>
sHttps == <<"h","t","t","p","s",":","/","/">>
sGET == <<"G","E","T">>
sHEAD == <<"H","E","A","D">>
sPOST == <<"P","O","S","T">>
sAmp == <<"&">>
sDashX == <<"-","X">>
sDashD == <<"-","d">>
sDashH == <<"-","H">>
sDashA == <<"-","A">>
sDashU == <<"-","u">>
sDashI == <<"-","I">>
sDashB == <<"-","b">>
sHeader == <<"-","-","h","e","a","d","e","r">>
sUserAgentFlag == <<"-","-","u","s","e","r","-","a","g","e","n","t">>
sData == <<"-","-","d","a","t","a">>
sDataAscii == <<"-","-","d","a","t","a","-","a","s","c","i","i">>
sDataRaw == <<"-","-","d","a","t","a","-","r","a","w">>
sDataBinary == <<"-","-","d","a","t","a","-","b","i","n","a","r","y">>
sUser == <<"-","-","u","s","e","r">>
sHead == <<"-","-","h","e","a","d">>
sRequest == <<"-","-","r","e","q","u","e","s","t">>
sCookieFlag == <<"-","-","c","o","o","k","i","e">>
sCompressed == <<"-","-","c","o","m","p","r","e","s","s","e","d">>
sAcceptEncoding == <<"A","c","c","e","p","t","-","E","n","c","o","d","i","n","g">>
sDeflateGzip == <<"d","e","f","l","a","t","e",","," ","g","z","i","p">>
sContentType == <<"C","o","n","t","e","n","t","-","T","y","p","e">>
sFormUrlencoded == <<"a","p","p","l","i","c","a","t","i","o","n","/","x","-","w","w","w","-","f","o","r","m","-","u","r","l","e","n","c","o","d","e","d">>
sUserAgent == <<"U","s","e","r","-","A","g","e","n","t">>
sAuthorization == <<"A","u","t","h","o","r","i","z","a","t","i","o","n">>
sCookie == <<"C","o","o","k","i","e">>
sBasic == <<"B","a","s","i","c"," ">>
sEq == <<"=">>

\* strings.HasPrefix
HasPrefix(s, p) ==
    Len(s) >= Len(p) /\ SubSeq(s, 1, Len(p)) = p

\* strings.Index for a one-character separator: 0-based, -1 when absent
Index(a, c) ==
    IF \E k \in 1..Len(a) : a[k] = c
    THEN (CHOOSE k \in 1..Len(a) : a[k] = c /\ \A m \in 1..(k-1) : a[m] # c) - 1
    ELSE -1

\* a[lo:hi] of Go (0-based, hi exclusive), for 0 <= lo <= hi <= len(a)
Slice(a, lo, hi) ==
    SubSeq(a, lo + 1, hi)

\* whether a[lo:hi] is within bounds; outside them Go panics
SliceOK(a, lo, hi) ==
    0 <= lo /\ lo <= hi /\ hi <= Len(a)

isSpace(c) ==
    c \in {" ", "\t", "\n", "\r"}

RECURSIVE TrimLeft(_)
TrimLeft(s) ==
    IF s # <<>> /\ isSpace(Head(s)) THEN TrimLeft(Tail(s)) ELSE s

RECURSIVE TrimRight(_)
TrimRight(s) ==
    IF s # <<>> /\ isSpace(s[Len(s)]) THEN TrimRight(SubSeq(s, 1, Len(s) - 1)) ELSE s

\* strings.TrimSpace
TrimSpace(s) ==
    TrimRight(TrimLeft(s))

Lowers == <<"a","b","c","d","e","f","g","h","i","j","k","l","m","n","o","p","q","r","s","t","u","v","w","x","y","z">>
Uppers == <<"A","B","C","D","E","F","G","H","I","J","K","L","M","N","O","P","Q","R","S","T","U","V","W","X","Y","Z">>
Digits == {"0","1","2","3","4","5","6","7","8","9"}

Range(s) ==
    {s[k] : k \in DOMAIN s}

PosIn(s, c) ==
    CHOOSE k \in DOMAIN s : s[k] = c

ToUpper(c) ==
    IF c \in Range(Lowers) THEN Uppers[PosIn(Lowers, c)] ELSE c

ToLower(c) ==
    IF c \in Range(Uppers) THEN Lowers[PosIn(Uppers, c)] ELSE c

\* the bytes net/textproto accepts in a header field name (the quote characters
\* among them are not part of the model's alphabet)
validHeaderFieldByte(c) ==
    c \in Range(Lowers) \cup Range(Uppers) \cup Digits
          \cup {"!","#","$","%","&","*","+","-",".","^","_","|","~"}

RECURSIVE canonicalFrom(_, _)
canonicalFrom(s, upper) ==
    IF s = <<>> THEN <<>>
    ELSE <<IF upper THEN ToUpper(Head(s)) ELSE ToLower(Head(s))>>
         \o canonicalFrom(Tail(s), Head(s) = "-")

\* a variant that keeps every name as written
CanonicalMIMEHeaderKeyAsWritten(s) ==
    s

\* textproto.CanonicalMIMEHeaderKey, which http.Header's Add and Get apply to the name
CanonicalMIMEHeaderKey(s) ==
    IF \E k \in DOMAIN s : ~validHeaderFieldByte(s[k]) THEN s ELSE canonicalFrom(s, TRUE)

\* http.Header.Add: the value is appended to the values under the canonical name
HeaderAdd(h, key, value) ==
    LET k == CanonicalMIMEHeaderKey(key)
    IN  IF k \in DOMAIN h THEN [h EXCEPT ![k] = Append(@, value)]
        ELSE h @@ (k :> <<value>>)

\* http.Header.Get: the first value under the canonical name, "" when there is none
HeaderGet(h, key) ==
    LET k == CanonicalMIMEHeaderKey(key)
    IN  IF k \in DOMAIN h /\ Len(h[k]) > 0 THEN h[k][1] ELSE <<>>

\* http.Header{}
EmptyHeader ==
    [k \in {} |-> <<>>]

----------------------------------------------------------------------------
(* Tokenizing and validating the command *)

\* shellwords.Parse (github.com/mattn/go-shellwords), for the characters of the
\* model: blanks separate words, a double quote opens or closes a quoted part
\* (blanks inside it belong to the word, a closed quote makes a word even when it is
\* empty), and a quote left open is an error.  got: "no", "single" or "quoted".
RECURSIVE shellScan(_, _, _, _, _)
shellScan(s, buf, got, quoted, acc) ==
    IF s = <<>>
    THEN IF quoted THEN [err |-> TRUE, args |-> <<>>]
         ELSE [err |-> FALSE, args |-> IF got # "no" THEN Append(acc, buf) ELSE acc]
    ELSE LET c == Head(s)
         IN  IF isSpace(c)
             THEN IF quoted THEN shellScan(Tail(s), Append(buf, c), got, quoted, acc)
                  ELSE IF got # "no" THEN shellScan(Tail(s), <<>>, "no", quoted, Append(acc, buf))
                  ELSE shellScan(Tail(s), buf, got, quoted, acc)
             ELSE IF c = "\""
             THEN shellScan(Tail(s), buf, IF quoted THEN "quoted" ELSE got, ~quoted, acc)
             ELSE shellScan(Tail(s), Append(buf, c), "single", quoted, acc)

shellwordsParse(line) ==
    shellScan(line, <<>>, "no", FALSE, <<>>)

\* rewrite: a token with the prefix -X becomes the two tokens a[0:2] and a[2:]
RECURSIVE rewrite(_)
rewrite(as) ==
    IF as = <<>> THEN <<>>
    ELSE LET a == Head(as)
         IN  (IF HasPrefix(a, sDashX)
              THEN <<Slice(a, 0, 2), Slice(a, 2, Len(a))>>
              ELSE <<a>>) \o rewrite(Tail(as))

\* the part of cmdToArgs after the optional split: cmd[0] is read before the length
\* is looked at, so an empty cmd is an index out of range
validateCmd(c) ==
    IF Len(c) = 0 THEN [kind |-> "panic", args |-> <<>>]
    ELSE IF c[1] # sCurl THEN [kind |-> "error", args |-> <<>>]
    ELSE IF Len(c) = 1 THEN [kind |-> "error", args |-> <<>>]
    ELSE [kind |-> "ok", args |-> rewrite(Tail(c))]

\* cmdToArgs: a single argument is split into words first
cmdToArgs(c) ==
    IF Len(c) = 1
    THEN LET r == shellwordsParse(c[1])
         IN  IF r.err THEN [kind |-> "error", args |-> <<>>] ELSE validateCmd(r.args)
    ELSE validateCmd(c)

----------------------------------------------------------------------------
(* Expanding @file in data parameters *)

\* parseCurlDataArg: the cases in the order of the switch
parseCurlDataArg(arg) ==
    LET eq(f) == f \o sEq
        rest(f) == Slice(arg, Len(f), Len(arg))
    IN  IF arg = sDataBinary
            THEN [option |-> sDataBinary, value |-> <<>>, inline |-> FALSE, ok |-> TRUE]
        ELSE IF HasPrefix(arg, eq(sDataBinary))
            THEN [option |-> sDataBinary, value |-> rest(eq(sDataBinary)), inline |-> TRUE, ok |-> TRUE]
        ELSE IF arg = sDataAscii
            THEN [option |-> sDataAscii, value |-> <<>>, inline |-> FALSE, ok |-> TRUE]
        ELSE IF HasPrefix(arg, eq(sDataAscii))
            THEN [option |-> sDataAscii, value |-> rest(eq(sDataAscii)), inline |-> TRUE, ok |-> TRUE]
        ELSE IF arg = sData
            THEN [option |-> sData, value |-> <<>>, inline |-> FALSE, ok |-> TRUE]
        ELSE IF HasPrefix(arg, eq(sData))
            THEN [option |-> sData, value |-> rest(eq(sData)), inline |-> TRUE, ok |-> TRUE]
        ELSE IF arg = sDashD
            THEN [option |-> sDashD, value |-> <<>>, inline |-> FALSE, ok |-> TRUE]
        ELSE IF HasPrefix(arg, sDashD)
            THEN [option |-> sDashD, value |-> rest(sDashD), inline |-> TRUE, ok |-> TRUE]
        ELSE [option |-> <<>>, value |-> <<>>, inline |-> FALSE, ok |-> FALSE]

\* readDataFile: "" unless the value is @ followed by a path; then the file's
\* contents, or an error when os.ReadFile fails
readDataFile(fs, value) ==
    IF ~HasPrefix(value, <<"@">>) \/ Len(value) <= 1
    THEN [err |-> FALSE, content |-> <<>>]
    ELSE LET payloadPath == Slice(value, 1, Len(value))
         IN  IF payloadPath \in DOMAIN fs
             THEN [err |-> FALSE, content |-> fs[payloadPath]]
             ELSE [err |-> TRUE, content |-> <<>>,
                   msg |-> <<"failed to read ">> \o payloadPath \o <<": no such file">>]

\* slices.Insert(s, j, v) with a 0-based j
Insert(s, j, v) ==
    SubSeq(s, 1, j) \o <<v>> \o SubSeq(s, j + 1, Len(s))

\* a variant whose step is 0 when a glued value names no content: the scan stays
\* on the same token
expandIterStuck(fs, as, n) ==
    LET d == parseCurlDataArg(as[n + 1])
    IN  IF ~d.ok THEN [kind |-> "next", args |-> as, i |-> n + 1]
        ELSE IF d.inline
        THEN LET r == readDataFile(fs, d.value)
             IN  IF r.err THEN [kind |-> "error", args |-> as, i |-> n, err |-> r.msg]
                 ELSE IF r.content # <<>>
                 THEN [kind |-> "next",
                       args |-> Insert([as EXCEPT ![n + 1] = d.option], n + 1, r.content),
                       i |-> n + 2]
                 ELSE [kind |-> "next", args |-> as, i |-> n]
        ELSE IF n + 1 >= Len(as) THEN [kind |-> "break", args |-> as, i |-> n]
        ELSE LET r == readDataFile(fs, as[n + 2])
             IN  IF r.err THEN [kind |-> "error", args |-> as, i |-> n, err |-> r.msg]
                 ELSE IF r.content # <<>>
                 THEN [kind |-> "next", args |-> [as EXCEPT ![n + 2] = r.content], i |-> n + 2]
                 ELSE [kind |-> "next", args |-> as, i |-> n + 2]

\* One iteration of the loop of expandCurlDataFiles at scan index n (0-based):
\* kind "next" (go on at .i), "break" (leave the loop) or "error".
expandIter(fs, as, n) ==
    LET d == parseCurlDataArg(as[n + 1])
    IN  IF ~d.ok THEN [kind |-> "next", args |-> as, i |-> n + 1]
        ELSE IF d.inline
        THEN LET r == readDataFile(fs, d.value)
             IN  IF r.err THEN [kind |-> "error", args |-> as, i |-> n, err |-> r.msg]
                 ELSE IF r.content # <<>>
                 THEN [kind |-> "next",
                       args |-> Insert([as EXCEPT ![n + 1] = d.option], n + 1, r.content),
                       i |-> n + 2]
                 ELSE [kind |-> "next", args |-> as, i |-> n + 1]
        ELSE IF n + 1 >= Len(as) THEN [kind |-> "break", args |-> as, i |-> n]
        ELSE LET r == readDataFile(fs, as[n + 2])
             IN  IF r.err THEN [kind |-> "error", args |-> as, i |-> n, err |-> r.msg]
                 ELSE IF r.content # <<>>
                 THEN [kind |-> "next", args |-> [as EXCEPT ![n + 2] = r.content], i |-> n + 2]
                 ELSE [kind |-> "next", args |-> as, i |-> n + 2]

----------------------------------------------------------------------------
(* The token loop of Parse *)

stateBlank == ""
stateHeader == "header"
stateUA == "user-agent"
stateData == "data"
stateUser == "user"
stateMethod == "method"
stateCookie == "cookie"

\* A *T is a sequence of length 0 (nil) or 1.
Nil == <<>>

\* the zero Parsed; holds the place of out before newParsed has run
ZeroParsed ==
    [URL |-> Nil, Method |-> <<>>, Header |-> EmptyHeader, Body |-> <<>>]

newParsed ==
    [URL |-> Nil, Method |-> sGET, Header |-> EmptyHeader, Body |-> <<>>]

\* a variant that takes every token that does not start with - for a URL
isURLBare(u) ==
    u # <<>> /\ u[1] # "-"

isURL(u) ==
    HasPrefix(u, sHttps) \/ HasPrefix(u, sHttp)

HexDigits ==
    Digits \cup {"a","b","c","d","e","f","A","B","C","D","E","F"}

\* url.Parse (net/url) of a token that has one of the two scheme prefixes: the scheme
\* and what follows "://"; a % that does not start a two-digit hex escape is an error.
urlParse(a) ==
    LET n == Index(a, ":")
        rest == Slice(a, n + 3, Len(a))
        badEscape == \E k \in 1..Len(rest) :
                        /\ rest[k] = "%"
                        /\ ~(k + 2 <= Len(rest) /\ rest[k+1] \in HexDigits /\ rest[k+2] \in HexDigits)
    IN  IF badEscape THEN [err |-> TRUE, u |-> [Scheme |-> <<>>, Rest |-> <<>>]]
        ELSE [err |-> FALSE, u |-> [Scheme |-> Slice(a, 0, n), Rest |-> rest]]

\* (*url.URL).String
urlString(u) ==
    u.Scheme \o <<":","/","/">> \o u.Rest

\* a variant that keeps a URL already set
setURLOnce(o, u) ==
    IF o.URL = Nil THEN [o EXCEPT !.URL = <<u>>] ELSE o

\* case isURL(a), after url.Parse succeeded: out.URL = u
setURL(o, u) ==
    [o EXCEPT !.URL = <<u>>]

\* the data flags the switch of Parse recognizes
isDataFlag(a) ==
    a = sDashD \/ a = sData \/ a = sDataAscii \/ a = sDataRaw

\* case a == "--compressed"
compressed(h) ==
    IF HeaderGet(h, sAcceptEncoding) = <<>>
    THEN HeaderAdd(h, sAcceptEncoding, sDeflateGzip)
    ELSE h

\* a variant that takes the value from a[i+2:], dropping the character after the ":"
parseFieldSkipTwo(a) ==
    LET n == Index(a, ":")
    IN  IF ~SliceOK(a, 0, n) \/ ~SliceOK(a, n + 2, Len(a))
        THEN [panic |-> TRUE, k |-> <<>>, v |-> <<>>]
        ELSE [panic |-> FALSE,
              k |-> TrimSpace(Slice(a, 0, n)),
              v |-> TrimSpace(Slice(a, n + 2, Len(a)))]

\* parseField: a[0:i] and a[i+1:] around the first ":"; with no ":" in a, i is -1
\* and a[0:i] is a slice out of range
parseField(a) ==
    LET n == Index(a, ":")
    IN  IF ~SliceOK(a, 0, n) \/ ~SliceOK(a, n + 1, Len(a))
        THEN [panic |-> TRUE, k |-> <<>>, v |-> <<>>]
        ELSE [panic |-> FALSE,
              k |-> TrimSpace(Slice(a, 0, n)),
              v |-> TrimSpace(Slice(a, n + 1, Len(a)))]

\* a variant that upgrades GET only
upgradeMethodGetOnly(m) ==
    IF m = sGET THEN sPOST ELSE m

\* case stateData, the method
upgradeMethod(m) ==
    IF m = sGET \/ m = sHEAD THEN sPOST ELSE m

\* a variant that joins without the separator
appendBodyNoSeparator(b, a) ==
    b \o a

\* case stateData, the body
appendBody(b, a) ==
    IF Len(b) = 0 THEN a ELSE b \o sAmp \o a

\* the bytes of a Go string that are not characters of the commands
bNUL == "0x00"
bC3 == "0xC3"
bA9 == "0xA9"
bEF == "0xEF"
bBF == "0xBF"
bBD == "0xBD"
bFF == "0xFF"

\* the characters 0x20..0x7E in the order of their byte values (the single quote
\* and the backquote, which no command of the model holds, by their byte names)
Ascii ==
    <<" ","!","\"","#","$","%","&","0x27","(",")","*","+",",","-",".","/",
      "0","1","2","3","4","5","6","7","8","9",":",";","<","=",">","?","@">>
    \o Uppers \o <<"[","\\","]","^","_","0x60">> \o Lowers \o <<"{","|","}","~">>

\* the value of the byte c
byteOf(c) ==
    IF c = bNUL THEN 0
    ELSE IF c = bA9 THEN 169
    ELSE IF c = bBD THEN 189
    ELSE IF c = bBF THEN 191
    ELSE IF c = bC3 THEN 195
    ELSE IF c = bEF THEN 239
    ELSE IF c = bFF THEN 255
    ELSE 31 + PosIn(Ascii, c)

\* the alphabet of base64.StdEncoding
encodeStd ==
    Uppers \o Lowers \o <<"0","1","2","3","4","5","6","7","8","9","+","/">>

\* Encoding.Encode: every three bytes give four characters of the alphabet; a last
\* group of one or two bytes gives two or three characters, filled up to four with
\* "=" when the encoding pads
RECURSIVE base64Groups(_, _)
base64Groups(a, pad) ==
    IF a = <<>> THEN <<>>
    ELSE LET n == Len(a)
             b1 == byteOf(a[1])
             b2 == IF n >= 2 THEN byteOf(a[2]) ELSE 0
             b3 == IF n >= 3 THEN byteOf(a[3]) ELSE 0
         IN  <<encodeStd[(b1 \div 4) + 1], encodeStd[((b1 % 4) * 16 + (b2 \div 16)) + 1]>>
             \o (IF n >= 2 THEN <<encodeStd[((b2 % 16) * 4 + (b3 \div 64)) + 1]>>
                 ELSE IF pad THEN <<"=">> ELSE <<>>)
             \o (IF n >= 3 THEN <<encodeStd[(b3 % 64) + 1]>>
                 ELSE IF pad THEN <<"=">> ELSE <<>>)
             \o (IF n > 3 THEN base64Groups(SubSeq(a, 4, n), pad) ELSE <<>>)

\* a variant that encodes without padding (base64.RawStdEncoding)
base64EncodeRaw(a) ==
    base64Groups(a, FALSE)

\* base64.StdEncoding.EncodeToString
base64Encode(a) ==
    base64Groups(a, TRUE)

\* a variant that takes a stray token for the method
ignoreTokenAsMethod(o, st, a) ==
    [kind |-> "cont", out |-> [o EXCEPT !.Method = a], state |-> st, did |-> "ignored"]

\* default: of the inner switch
ignoreToken(o, st, a) ==
    [kind |-> "cont", out |-> o, state |-> st, did |-> "ignored"]

\* case a != "": the inner switch on the pending state
consumeValue(o, st, a) ==
    IF st = stateHeader
    THEN LET f == parseField(a)
         IN  IF f.panic THEN [kind |-> "panic", out |-> o, state |-> st, did |-> "header"]
             ELSE [kind |-> "cont", out |-> [o EXCEPT !.Header = HeaderAdd(@, f.k, f.v)],
                   state |-> stateBlank, did |-> "header"]
    ELSE IF st = stateUA
    THEN [kind |-> "cont", out |-> [o EXCEPT !.Header = HeaderAdd(@, sUserAgent, a)],
          state |-> stateBlank, did |-> "user-agent"]
    ELSE IF st = stateData
    THEN [kind |-> "cont",
          out |-> [o EXCEPT !.Method = upgradeMethod(@), !.Body = appendBody(@, a)],
          state |-> stateBlank, did |-> "data"]
    ELSE IF st = stateUser
    THEN [kind |-> "cont",
          out |-> [o EXCEPT !.Header = HeaderAdd(@, sAuthorization, sBasic \o base64Encode(a))],
          state |-> stateBlank, did |-> "user"]
    ELSE IF st = stateMethod
    THEN [kind |-> "cont", out |-> [o EXCEPT !.Method = a], state |-> stateBlank, did |-> "method"]
    ELSE IF st = stateCookie
    THEN [kind |-> "cont", out |-> [o EXCEPT !.Header = HeaderAdd(@, sCookie, a)],
          state |-> stateBlank, did |-> "cookie"]
    ELSE ignoreToken(o, st, a)

\* a variant in which a flag that takes a value already counts as a data value
pendFlagEager(o, st) ==
    [kind |-> "cont",
     out |-> IF st = stateData THEN [o EXCEPT !.Method = upgradeMethod(@)] ELSE o,
     state |-> st, did |-> "flag"]

\* state = stateX: a flag that takes a value only sets the pending state
pendFlag(o, st) ==
    [kind |-> "cont", out |-> o, state |-> st, did |-> "flag"]

\* a variant in which the flag stays pending after its value is consumed
valueTokenSticky(o, st, a) ==
    IF a # <<>>
    THEN [consumeValue(o, st, a) EXCEPT !.state = st]
    ELSE [kind |-> "cont", out |-> o, state |-> st, did |-> "empty"]

\* a variant whose last case takes the empty token as a value too
valueTokenAny(o, st, a) ==
    consumeValue(o, st, a)

\* the last case of the outer switch, case a != "": an empty token matches no case
\* and leaves the model and the pending state as they are
valueToken(o, st, a) ==
    IF a # <<>>
    THEN consumeValue(o, st, a)
    ELSE [kind |-> "cont", out |-> o, state |-> st, did |-> "empty"]

\* The body of the loop of Parse for the token a: the outer switch, cases in order.
\* did names the case that ran.
parseToken(o, st, a) ==
    IF isURL(a)
    THEN LET r == urlParse(a)
         IN  IF r.err THEN [kind |-> "error", out |-> o, state |-> st, did |-> "url"]
             ELSE [kind |-> "cont", out |-> setURL(o, r.u), state |-> st, did |-> "url"]
    ELSE IF a = sDashA \/ a = sUserAgentFlag
    THEN pendFlag(o, stateUA)
    ELSE IF a = sDashH \/ a = sHeader
    THEN pendFlag(o, stateHeader)
    ELSE IF isDataFlag(a)
    THEN pendFlag(o, stateData)
    ELSE IF a = sDashU \/ a = sUser
    THEN pendFlag(o, stateUser)
    ELSE IF a = sDashI \/ a = sHead
    THEN [kind |-> "cont", out |-> [o EXCEPT !.Method = sHEAD], state |-> st, did |-> "head"]
    ELSE IF a = sDashX \/ a = sRequest
    THEN pendFlag(o, stateMethod)
    ELSE IF a = sDashB \/ a = sCookieFlag
    THEN pendFlag(o, stateCookie)
    ELSE IF a = sCompressed
    THEN [kind |-> "cont", out |-> [o EXCEPT !.Header = compressed(@)], state |-> st,
          did |-> "compressed"]
    ELSE valueToken(o, st, a)

\* a variant that applies the method upgrade again once the loop is over
postLoopUpgrade(o) ==
    LET u == IF Len(o.Body) > 0 THEN [o EXCEPT !.Method = upgradeMethod(@)] ELSE o
    IN  IF Len(u.Body) > 0 /\ HeaderGet(u.Header, sContentType) # <<>>
        THEN [u EXCEPT !.Header = HeaderAdd(@, sContentType, sFormUrlencoded)]
        ELSE u

\* the rule after the loop
postLoop(o) ==
    IF Len(o.Body) > 0 /\ HeaderGet(o.Header, sContentType) # <<>>
    THEN [o EXCEPT !.Header = HeaderAdd(@, sContentType, sFormUrlencoded)]
    ELSE o

\* expandCurlDataFiles from the scan index n on: the loop run to its end
RECURSIVE expandFrom(_, _, _)
expandFrom(fs, as, n) ==
    IF n >= Len(as) THEN [err |-> <<>>, args |-> as]
    ELSE LET r == expandIter(fs, as, n)
         IN  IF r.kind = "error" THEN [err |-> r.err, args |-> <<>>]
             ELSE IF r.kind = "break" THEN [err |-> <<>>, args |-> r.args]
             ELSE expandFrom(fs, r.args, r.i)

\* the range loop of Parse over the tokens as, from the model o and the state st
RECURSIVE loopFrom(_, _, _)
loopFrom(o, st, as) ==
    IF as = <<>> THEN [kind |-> "cont", out |-> o, state |-> st]
    ELSE LET r == parseToken(o, st, Head(as))
         IN  IF r.kind = "cont" THEN loopFrom(r.out, r.state, Tail(as))
             ELSE [kind |-> r.kind, out |-> o, state |-> st]

\* Parse from the tokens cmdToArgs returned: expansion, the loop, the rule after it
parseArgs(fs, as) ==
    LET e == expandFrom(fs, as, 0)
    IN  IF e.err # <<>> THEN [kind |-> "error", p |-> Nil, state |-> stateBlank]
        ELSE LET l == loopFrom(newParsed, stateBlank, e.args)
             IN  IF l.kind = "cont"
                 THEN [kind |-> "ok", p |-> <<postLoop(l.out)>>, state |-> l.state]
                 ELSE [kind |-> l.kind, p |-> Nil, state |-> l.state]

----------------------------------------------------------------------------
(* Bytes that are not characters of the commands *)

\* A Go string holds bytes.  Beside the one-character strings, which are ASCII, a
\* body may hold these bytes: NUL, the two bytes of U+00E9, the three bytes of U+FFFD
\* and 0xFF, which no UTF-8 text contains (their names are with the byte values).

\* the continuation bytes 0x80..0xBF
isContinuation(c) ==
    c \in {bA9, bBF, bBD}

\* utf8.DecodeRuneInString: the size of the rune at the head of b, 0 when the head
\* is not the start of a valid encoding (the decoder then yields RuneError, size 1)
runeSize(b) ==
    IF b[1] \notin {bC3, bA9, bEF, bBF, bBD, bFF} THEN 1
    ELSE IF b[1] = bC3 /\ Len(b) >= 2 /\ isContinuation(b[2]) THEN 2
    ELSE IF b[1] = bEF /\ Len(b) >= 3 /\ isContinuation(b[2]) /\ isContinuation(b[3]) THEN 3
    ELSE 0

----------------------------------------------------------------------------
(* Request: the *http.Request of a Parsed *)

\* http.NoBody, and strings.NewReader(s)
NoBody ==
    [kind |-> "NoBody", s |-> <<>>]

\* a variant that reads the body as a C string, up to its first NUL byte
bodyReaderCString(b) ==
    IF b = <<>> THEN NoBody
    ELSE [kind |-> "Reader",
          s |-> IF Index(b, bNUL) < 0 THEN b ELSE Slice(b, 0, Index(b, bNUL))]

\* the io.Reader that Request hands to http.NewRequest
bodyReader(b) ==
    IF b = <<>> THEN NoBody ELSE [kind |-> "Reader", s |-> b]

\* io.ReadAll of a request body
readAll(r) ==
    r.s

\* validMethod of net/http: a non-empty sequence of token characters
validMethod(m) ==
    Len(m) > 0 /\ \A k \in 1..Len(m) : validHeaderFieldByte(m[k])

\* http.NewRequest: an empty method means GET; the method is validated, then the URL
\* is parsed; the new request has an empty header
NewRequest(method, u, b) ==
    LET m == IF method = <<>> THEN sGET ELSE method
        r == urlParse(u)
    IN  IF ~validMethod(m)
        THEN [kind |-> "return", req |-> Nil, err |-> <<"net/http: invalid method ">> \o m]
        ELSE IF r.err
        THEN [kind |-> "return", req |-> Nil, err |-> <<"parse ">> \o u]
        ELSE [kind |-> "return", err |-> <<>>,
              req |-> <<[Method |-> m, URL |-> r.u, Header |-> EmptyHeader, Body |-> b]>>]

\* Request after its test of p.URL: NewRequest, then req.Header = p.Header
requestOf(p) ==
    LET r == NewRequest(p.Method, urlString(p.URL[1]), bodyReader(p.Body))
    IN  IF r.err # <<>> THEN r
        ELSE [r EXCEPT !.req = <<[r.req[1] EXCEPT !.Header = p.Header]>>]

\* a variant without the test of p.URL: p.URL.String() dereferences the nil pointer
RequestUnchecked(p) ==
    IF p.URL = Nil THEN [kind |-> "panic", req |-> Nil, err |-> <<>>]
    ELSE requestOf(p)

\* (p *Parsed) Request(); fmt prints the nil *url.URL as <nil>
Request(p) ==
    IF p.URL = Nil
    THEN [kind |-> "return", req |-> Nil, err |-> <<"curlreq: invalid URL: ", "<nil>">>]
    ELSE requestOf(p)

----------------------------------------------------------------------------
(* MarshalJSON: the JSON document of a Parsed *)

\* \u00XX and \ufffd as encoding/json writes them
escapeOf(c) ==
    IF c = bNUL THEN <<"\\","u","0","0","0","0">>
    ELSE IF c = "&" THEN <<"\\","u","0","0","2","6">>
    ELSE IF c = "<" THEN <<"\\","u","0","0","3","c">>
    ELSE IF c = ">" THEN <<"\\","u","0","0","3","e">>
    ELSE <<"\\","u","f","f","f","d">>

\* the characters encoding/json writes between the quotes for the Go string b: the
\* quote and the backslash get a backslash, NUL and & < > become \u00XX, a byte that
\* starts no valid UTF-8 encoding becomes \ufffd, every other rune is copied
RECURSIVE jsonChars(_)
jsonChars(b) ==
    IF b = <<>> THEN <<>>
    ELSE LET c == Head(b)
             n == runeSize(b)
         IN  IF c \in {"\"", "\\"} THEN <<"\\", c>> \o jsonChars(Tail(b))
             ELSE IF c \in {bNUL, "&", "<", ">"} THEN escapeOf(c) \o jsonChars(Tail(b))
             ELSE IF n = 0 THEN escapeOf(c) \o jsonChars(Tail(b))
             ELSE SubSeq(b, 1, n) \o jsonChars(SubSeq(b, n + 1, Len(b)))

\* a Go string as a JSON string
jsonString(b) ==
    <<"\"">> \o jsonChars(b) \o <<"\"">>

\* an http.Header as a JSON object of arrays of strings
jsonHeader(h) ==
    [k \in DOMAIN h |-> [j \in DOMAIN h[k] |-> jsonString(h[k][j])]]

\* a variant in which header is omitempty as well
jsonMarshalOmitHeader(s) ==
    (IF s.Header = EmptyHeader THEN <<>> ELSE [header |-> jsonHeader(s.Header)])
    @@ [url |-> jsonString(s.URL), method |-> jsonString(s.Method)]
    @@ (IF s.Body = <<>> THEN <<>> ELSE [body |-> jsonString(s.Body)])

\* json.Marshal of the struct s of MarshalJSON: url, method and header always, body
\* unless it is empty (omitempty); field name -> JSON value
jsonMarshal(s) ==
    [url |-> jsonString(s.URL), method |-> jsonString(s.Method), header |-> jsonHeader(s.Header)]
    @@ (IF s.Body = <<>> THEN <<>> ELSE [body |-> jsonString(s.Body)])

\* (p *Parsed) MarshalJSON(): p.URL.String() dereferences a nil p.URL
MarshalJSON(p) ==
    IF p.URL = Nil THEN [kind |-> "panic", doc |-> <<>>, err |-> <<>>]
    ELSE [kind |-> "return", err |-> <<>>,
          doc |-> jsonMarshal([URL |-> urlString(p.URL[1]), Method |-> p.Method,
                               Header |-> p.Header, Body |-> p.Body])]

----------------------------------------------------------------------------
(* The commands the model is run on *)

\* tokens of the commands
tX == <<"x">>
tY == <<"y">>
tPUT == <<"P","U","T">>
tURLa == <<"h","t","t","p",":","/","/","a">>
tURLb == <<"h","t","t","p","s",":","/","/","b">>
tURLbad == <<"h","t","t","p",":","/","/","%">>
tV == <<"-","v">>
tFoo == <<"-","-","f","o","o">>
tBar == <<"b","a","r">>
tAEgzip == <<"A","c","c","e","p","t","-","E","n","c","o","d","i","n","g",":","g","z","i","p">>
tAEempty == <<"A","c","c","e","p","t","-","E","n","c","o","d","i","n","g",":">>
tAElower == <<"a","c","c","e","p","t","-","e","n","c","o","d","i","n","g",":"," ","b","r">>
tCTjson == <<"C","o","n","t","e","n","t","-","T","y","p","e",":","j">>
tCTlower == <<"c","o","n","t","e","n","t","-","t","y","p","e",":"," ","k">>
tFieldTight == <<"A",":","b">>
tFieldSpaced == <<"A",":"," ","b">>
tFieldColons == <<" ","a"," ",":"," ","b",":","c"," ">>
tFieldInner == <<"x"," ","y",":","c">>
tTobi == <<"t","o","b","i",":","f","e","r","r","e","t">>
tUserOnly == <<"u",":">>
tColon == <<":">>
tAtF == <<"@","f">>
tAtE == <<"@","e">>
tAtM == <<"@","m">>
tAt == <<"@">>
tDAtF == <<"-","d","@","f">>
tDataEqAtF == <<"-","-","d","a","t","a","=","@","f">>
tDAtE == <<"-","d","@","e">>
tDataUrlencode == <<"-","-","d","a","t","a","-","u","r","l","e","n","c","o","d","e">>
tSpaced == <<"a"," ","b">>
tNameEq == <<"n","=","a","&","=">>
tNameAtF == <<"n","@","f">>
tDX == <<"-","d","x">>
tDataEqX == <<"-","-","d","a","t","a","=","x">>
tHGlued == <<"-","H","A",":","b">>
tXPUT == <<"-","X","P","U","T">>
tQuote == <<"\"">>
tEmpty == <<>>

\* a data value naming the file /w/f by its absolute path
tAtAbs == <<"@", "/", "w", "/", "f">>

\* data values naming the files h and i
tAtH == <<"@", "h">>
tAtI == <<"@", "i">>

\* the files as os.ReadFile sees them from the directory the process runs in:
\* f holds "x", e is empty, /w/f holds "y", h holds a URL, i holds the flag -I, and
\* no other path exists
FS ==
    (<<"f">> :> <<"x">>) @@ (<<"e">> :> <<>>) @@ (<<"/", "w", "/", "f">> :> <<"y">>)
    @@ (<<"h">> :> tURLa) @@ (<<"i">> :> sDashI)

\* longest token sequences drawn from each pool
MaxCmdLen == 3
MaxShort == 2
MaxFew == 3
MaxMid == 4
MaxLong == 6

SeqsUpTo(S, n) ==
    UNION {[1..k -> S] : k \in 0..n}

RECURSIVE JoinSp(_)
JoinSp(s) ==
    IF s = <<>> THEN <<>>
    ELSE IF Len(s) = 1 THEN s[1]
    ELSE s[1] \o <<" ">> \o JoinSp(Tail(s))

\* curl followed by at most n tokens of P, as an argument list
Commands(P, n) ==
    {<<sCurl>> \o s : s \in SeqsUpTo(P, n)}

\* the same commands as one string each
CommandLines(P, n) ==
    {<<JoinSp(c)>> : c \in Commands(P, n)}

PoolCmd == {sCurl, tX, tURLa, tEmpty, tQuote}
PoolAll ==
    {sDashA, sUserAgentFlag, sDashH, sHeader, sDashD, sData, sDataAscii, sDataRaw, sDataBinary,
     sDashU, sUser, sDashI, sHead, sDashX, sRequest, sDashB, sCookieFlag, sCompressed,
     tURLa, tX, tFieldTight}
PoolLine == {sDashD, tX, sDashX, tPUT, tXPUT, tDAtF, tURLa}
PoolMethod == {sDashD, tX, sDashX, tPUT, sDashI}
PoolURL == {tURLa, tURLb, tURLbad, sDashH, tFieldTight}
PoolNoise == {tV, tFoo, tBar, tURLa, tEmpty}
PoolEncoding == {sDashH, tAEgzip, tAEempty, tAElower, sCompressed}
PoolContentType == {sDashH, tCTjson, tCTlower, sDashD, tX}
PoolField == {sDashH, sHeader, tFieldTight, tFieldSpaced, tFieldColons, tColon, tX}
PoolFile == {sDashD, sDataBinary, tAtF, tAtE, tAtM, tAt, tDAtF, tDataEqAtF}
PoolRaw == {sDashD, sDataRaw, tAtF, tAtM, tDAtE, tURLa}
PoolGlued == {tDX, tDataEqX, tHGlued, tXPUT, tURLa}
PoolUrlencode == {tDataUrlencode, tSpaced, tNameEq, tAtF, tNameAtF}
PoolDir == {sDashD, tAtF, tAtAbs, tURLa}
PoolName == {sDashH, tAElower, tFieldInner, tFieldTight}
PoolRequest == {sRequest, sDashX, tEmpty, tPUT}
PoolUser == {sDashU, tTobi, tUserOnly}
PoolContent == {sDashD, sData, tAtH, tAtI, tAtF}
PoolCookie == {sDashB, sCookieFlag, tFoo, tURLa}
PoolBody == {sDashD, tX, tY}

\* every argument list over PoolCmd and the same as one string, with and without curl
CmdInputs ==
    LET L == SeqsUpTo(PoolCmd, MaxCmdLen)
    IN  L \cup {<<JoinSp(c)>> : c \in L}

Inputs ==
    CmdInputs
    \cup Commands(PoolAll, MaxShort)
    \cup CommandLines(PoolLine, MaxShort)
    \cup Commands(PoolMethod, MaxMid)
    \cup Commands(PoolURL, MaxMid)
    \cup Commands(PoolNoise, MaxMid)
    \cup Commands(PoolEncoding, MaxMid)
    \cup Commands(PoolContentType, MaxMid)
    \cup Commands(PoolField, MaxFew)
    \cup Commands(PoolFile, MaxFew)
    \cup Commands(PoolRaw, MaxFew)
    \cup Commands(PoolGlued, MaxShort)
    \cup Commands(PoolUrlencode, MaxShort)
    \cup Commands(PoolDir, MaxShort)
    \cup Commands(PoolName, MaxShort)
    \cup Commands(PoolRequest, MaxFew)
    \cup Commands(PoolUser, MaxMid)
    \cup Commands(PoolContent, MaxShort)
    \cup Commands(PoolCookie, MaxFew)
    \cup Commands(PoolBody, MaxLong)

----------------------------------------------------------------------------
(* One call of Parse *)

NoPrev ==
    [state |-> stateBlank, out |-> ZeroParsed, tok |-> <<>>, did |-> "none"]

NoReturn ==
    [kind |-> "none", p |-> Nil, err |-> <<>>]

\* neither Request nor MarshalJSON has been called
NoResult ==
    [kind |-> "none"]

\* no concurrent calls
NoCalls ==
    [c \in {} |-> <<>>]

\* Parse is called with one of the commands of S
InitOn(S) ==
    /\ cmd \in S
    /\ files = FS
    /\ args = <<>>
    /\ pc = "start"
    /\ i = 0
    /\ out = ZeroParsed
    /\ state = stateBlank
    /\ ret = NoReturn
    /\ hist = <<>>
    /\ prev = NoPrev
    /\ req = NoResult
    /\ doc = NoResult
    /\ calls = NoCalls
    /\ heap = <<>>

Init ==
    InitOn(Inputs)

\* a variant that hands back the model built so far together with the error
ReturnPartial(e) ==
    /\ ret' = [kind |-> "return", p |-> <<out>>, err |-> e]
    /\ pc' = "done"

\* return nil, err
ReturnError(e) ==
    /\ ret' = [kind |-> "return", p |-> Nil, err |-> e]
    /\ pc' = "done"

\* a run-time panic ends the call without a return
Panic ==
    /\ ret' = [kind |-> "panic", p |-> Nil, err |-> <<>>]
    /\ pc' = "done"

\* out := newParsed(); state := stateBlank; the range loop starts
EnterLoop ==
    /\ pc' = "loop"
    /\ i' = 0
    /\ out' = newParsed
    /\ state' = stateBlank

\* args, err := cmdToArgs(cmd...), and the first statements of expandCurlDataFiles
CmdToArgs ==
    /\ pc = "start"
    /\ LET r == cmdToArgs(cmd)
       IN  IF r.kind = "ok"
           THEN /\ args' = r.args
                /\ pc' = "expand"
                /\ ret' = ret
           ELSE /\ IF r.kind = "panic" THEN Panic ELSE ReturnError(<<"invalid curl command">>)
                /\ args' = args
    /\ UNCHANGED <<cmd, files, i, out, state, hist, prev, req, doc, calls, heap>>

\* one iteration of the loop of expandCurlDataFiles
ExpandStep ==
    /\ pc = "expand"
    /\ i < Len(args)
    /\ LET r == expandIter(files, args, i)
       IN  IF r.kind = "next"
           THEN /\ args' = r.args
                /\ i' = r.i
                /\ UNCHANGED <<pc, out, state, ret>>
           ELSE IF r.kind = "break"
           THEN /\ EnterLoop
                /\ UNCHANGED <<args, ret>>
           ELSE /\ ReturnError(r.err)
                /\ UNCHANGED <<args, i, out, state>>
    /\ UNCHANGED <<cmd, files, hist, prev, req, doc, calls, heap>>

\* the loop of expandCurlDataFiles ends and Parse goes on
ExpandDone ==
    /\ pc = "expand"
    /\ i >= Len(args)
    /\ EnterLoop
    /\ UNCHANGED <<cmd, files, args, ret, hist, prev, req, doc, calls, heap>>

\* one iteration of the loop of Parse
LoopStep ==
    /\ pc = "loop"
    /\ i < Len(args)
    /\ LET a == args[i + 1]
           r == parseToken(out, state, a)
       IN  /\ prev' = [state |-> state, out |-> out, tok |-> a, did |-> r.did]
           /\ hist' = Append(hist, [did |-> r.did, tok |-> a])
           /\ IF r.kind = "cont"
              THEN /\ out' = r.out
                   /\ state' = r.state
                   /\ i' = i + 1
                   /\ UNCHANGED <<pc, ret>>
              ELSE /\ IF r.kind = "panic" THEN Panic ELSE ReturnError(<<"parse ">> \o a \o <<": invalid URL escape">>)
                   /\ UNCHANGED <<out, state, i>>
    /\ UNCHANGED <<cmd, files, args, req, doc, calls, heap>>

\* after the loop: the Content-Type rule and return out, nil
PostLoop ==
    /\ pc = "loop"
    /\ i >= Len(args)
    /\ out' = postLoop(out)
    /\ ret' = [kind |-> "return", p |-> <<out'>>, err |-> <<>>]
    /\ pc' = "done"
    /\ UNCHANGED <<cmd, files, args, i, state, hist, prev, req, doc, calls, heap>>

Next ==
    \/ CmdToArgs
    \/ ExpandStep
    \/ ExpandDone
    \/ LoopStep
    \/ PostLoop

Spec ==
    Init /\ [][Next]_vars

----------------------------------------------------------------------------
(* Request and MarshalJSON on a Parsed *)

MaxBody == 3

\* the bytes of the bodies
PoolBytes == {"x", "&", bNUL, bC3, bA9, bFF}

\* a method NewRequest rejects (curl -X "a b")
tBadMethod == <<"a"," ","b">>

\* Parsed is an exported struct: the values Parse returns and those a caller builds
Parseds ==
    [URL : {Nil, <<urlParse(tURLa).u>>},
     Method : {sGET, sPOST, <<>>, tBadMethod},
     Header : {EmptyHeader, HeaderAdd(EmptyHeader, <<"A">>, <<"b">>)},
     Body : SeqsUpTo(PoolBytes, MaxBody)]

\* a caller holds the *Parsed p
InitUse ==
    /\ cmd = <<>>
    /\ files = FS
    /\ args = <<>>
    /\ pc = "done"
    /\ i = 0
    /\ out \in Parseds
    /\ state = stateBlank
    /\ ret = [kind |-> "return", p |-> <<out>>, err |-> <<>>]
    /\ hist = <<>>
    /\ prev = NoPrev
    /\ req = NoResult
    /\ doc = NoResult
    /\ calls = NoCalls
    /\ heap = <<>>

\* req, err := p.Request()
CallRequest ==
    /\ pc = "done"
    /\ ret.p # Nil
    /\ req.kind = "none"
    /\ req' = Request(ret.p[1])
    /\ UNCHANGED <<cmd, files, args, pc, i, out, state, ret, hist, prev, doc, calls, heap>>

\* b, err := p.MarshalJSON()
CallMarshalJSON ==
    /\ pc = "done"
    /\ ret.p # Nil
    /\ doc.kind = "none"
    /\ doc' = MarshalJSON(ret.p[1])
    /\ UNCHANGED <<cmd, files, args, pc, i, out, state, ret, hist, prev, req, calls, heap>>

NextUse ==
    \/ CallRequest
    \/ CallMarshalJSON

SpecUse ==
    InitUse /\ [][NextUse]_vars

\* the commands whose data values name files or are glued to their flag
InputsExpand ==
    Commands(PoolFile, MaxFew)
    \cup Commands(PoolGlued, MaxShort)
    \cup Commands(PoolContent, MaxShort)

InitExpand ==
    InitOn(InputsExpand)

\* Parse is straight-line code run by its caller's goroutine: a call that can take
\* a step takes it
SpecFair ==
    InitExpand /\ [][Next]_vars /\ WF_vars(Next)

----------------------------------------------------------------------------
(* Concurrent calls of Parse *)

\* the calls, made from independent goroutines
Calls == {"a", "b"}

\* the tokens of the concurrent commands
PoolPar == {sDashD, tAtF, tURLbad}

\* a nil *Parsed
NilAddr == 0

\* the locals of a call of Parse with the arguments c, before its first step
callOf(c) ==
    [cmd |-> c, pc |-> "start", args |-> <<>>, out |-> NilAddr, state |-> stateBlank,
     i |-> 0, ret |-> [kind |-> "none", p |-> NilAddr, err |-> <<>>, snap |-> Nil]]

\* a variant with one Parsed for the whole package, allocated by the first call and
\* handed to every later call as the earlier calls left it
newParsedShared(h) ==
    IF h = <<>> THEN [heap |-> <<newParsed>>, addr |-> 1] ELSE [heap |-> h, addr |-> 1]

\* a variant with one Parsed for the whole package that every call sets anew
newParsedReset(h) ==
    [heap |-> <<newParsed>>, addr |-> 1]

\* newParsed as an allocation: &Parsed{...} is a new place in the heap
newParsedIn(h) ==
    [heap |-> Append(h, newParsed), addr |-> Len(h) + 1]

\* return nil, err in the call c
ParReturnError(c, e) ==
    calls' = [calls EXCEPT ![c].pc = "done",
                           ![c].ret = [kind |-> "return", p |-> NilAddr, err |-> e, snap |-> Nil]]

\* a run-time panic in the call c
ParPanic(c) ==
    calls' = [calls EXCEPT ![c].pc = "done",
                           ![c].ret = [kind |-> "panic", p |-> NilAddr, err |-> <<>>, snap |-> Nil]]

InitPar ==
    /\ cmd = <<>>
    /\ files = FS
    /\ args = <<>>
    /\ pc = "par"
    /\ i = 0
    /\ out = ZeroParsed
    /\ state = stateBlank
    /\ ret = NoReturn
    /\ hist = <<>>
    /\ prev = NoPrev
    /\ req = NoResult
    /\ doc = NoResult
    /\ calls \in [Calls -> {callOf(c) : c \in Commands(PoolPar, MaxShort)}]
    /\ heap = <<>>

\* args, err := cmdToArgs(cmd...) in the call c
ParCmdToArgs(c) ==
    /\ calls[c].pc = "start"
    /\ LET r == cmdToArgs(calls[c].cmd)
       IN  IF r.kind = "ok"
           THEN calls' = [calls EXCEPT ![c].args = r.args, ![c].pc = "expand"]
           ELSE IF r.kind = "panic" THEN ParPanic(c)
           ELSE ParReturnError(c, <<"invalid curl command">>)
    /\ UNCHANGED <<cmd, files, args, pc, i, out, state, ret, hist, prev, req, doc, heap>>

\* args, err = expandCurlDataFiles(args) in the call c: the slice is the call's own,
\* the files are only read
ParExpand(c) ==
    /\ calls[c].pc = "expand"
    /\ LET e == expandFrom(files, calls[c].args, 0)
       IN  IF e.err # <<>>
           THEN ParReturnError(c, e.err)
           ELSE calls' = [calls EXCEPT ![c].args = e.args, ![c].pc = "new"]
    /\ UNCHANGED <<cmd, files, args, pc, i, out, state, ret, hist, prev, req, doc, heap>>

\* out := newParsed(); state := stateBlank in the call c
ParNewParsed(c) ==
    /\ calls[c].pc = "new"
    /\ LET n == newParsedIn(heap)
       IN  /\ heap' = n.heap
           /\ calls' = [calls EXCEPT ![c].out = n.addr, ![c].state = stateBlank,
                                      ![c].i = 0, ![c].pc = "loop"]
    /\ UNCHANGED <<cmd, files, args, pc, i, out, state, ret, hist, prev, req, doc>>

\* one iteration of the loop of Parse in the call c, on the Parsed out points to
ParLoopStep(c) ==
    /\ calls[c].pc = "loop"
    /\ calls[c].i < Len(calls[c].args)
    /\ LET a == calls[c].args[calls[c].i + 1]
           r == parseToken(heap[calls[c].out], calls[c].state, a)
       IN  IF r.kind = "cont"
           THEN /\ heap' = [heap EXCEPT ![calls[c].out] = r.out]
                /\ calls' = [calls EXCEPT ![c].state = r.state, ![c].i = @ + 1]
           ELSE /\ IF r.kind = "panic" THEN ParPanic(c)
                   ELSE ParReturnError(c, <<"parse ">> \o a \o <<": invalid URL escape">>)
                /\ heap' = heap
    /\ UNCHANGED <<cmd, files, args, pc, i, out, state, ret, hist, prev, req, doc>>

\* after the loop in the call c: the Content-Type rule and return out, nil; snap
\* keeps the Parsed as it is at the return
ParPostLoop(c) ==
    /\ calls[c].pc = "loop"
    /\ calls[c].i >= Len(calls[c].args)
    /\ heap' = [heap EXCEPT ![calls[c].out] = postLoop(@)]
    /\ calls' = [calls EXCEPT ![c].pc = "done",
                              ![c].ret = [kind |-> "return", p |-> calls[c].out, err |-> <<>>,
                                          snap |-> <<postLoop(heap[calls[c].out])>>]]
    /\ UNCHANGED <<cmd, files, args, pc, i, out, state, ret, hist, prev, req, doc>>

NextPar ==
    \/ \E c \in Calls : ParCmdToArgs(c)
    \/ \E c \in Calls : ParExpand(c)
    \/ \E c \in Calls : ParNewParsed(c)
    \/ \E c \in Calls : ParLoopStep(c)
    \/ \E c \in Calls : ParPostLoop(c)

SpecPar ==
    InitPar /\ [][NextPar]_vars

----------------------------------------------------------------------------
(* Properties *)

\* Parse returned out, nil
Succeeded ==
    ret.kind = "return" /\ ret.err = <<>> /\ ret.p # Nil

\* Parse returned nil and an error
Failed ==
    ret.kind = "return" /\ ret.err # <<>> /\ ret.p = Nil

\* the data values the loop has appended to the body, in order
RECURSIVE dataValues(_)
dataValues(h) ==
    IF h = <<>> THEN <<>>
    ELSE (IF Head(h).did = "data" THEN <<Head(h).tok>> ELSE <<>>) \o dataValues(Tail(h))

consumed ==
    dataValues(hist)

\* v1 & v2 & ... & vn
RECURSIVE JoinAmp(_)
JoinAmp(vs) ==
    IF vs = <<>> THEN <<>>
    ELSE IF Len(vs) = 1 THEN vs[1]
    ELSE vs[1] \o <<"&">> \o JoinAmp(Tail(vs))

\* the words of the command: those of the single string, or the list as given
\* (none when the string cannot be split)
Tokens(c) ==
    IF Len(c) = 1 THEN shellwordsParse(c[1]).args ELSE c

\* C1: Parse fails with an error and returns no model for every input whose first
\* token is not exactly curl or that has fewer than two tokens, given as one string
\* or as a list, an input of zero tokens included.
C1_InvalidCommandFails ==
    (pc = "done" /\ (Len(Tokens(cmd)) < 2 \/ Tokens(cmd)[1] # sCurl)) => Failed

\* C2: when a data value is consumed, the method becomes POST if it was GET or HEAD
\* and is left as it was otherwise.
C2_MethodUpgrade ==
    (prev.state = stateData /\ prev.did = "data") =>
        out.Method = (IF prev.out.Method \in {sGET, sHEAD} THEN sPOST ELSE prev.out.Method)

\* a data value was consumed after -X PUT, and the method is still PUT
C2_Witness ==
    /\ Succeeded
    /\ prev.did = "data"
    /\ prev.out.Method = tPUT
    /\ out.Method = tPUT
    /\ out.Body # <<>>

\* C3: once the data values v1..vn (n >= 1) have been consumed in that order, the body
\* is v1 & v2 & ... & vn.
C3_BodyJoin ==
    (pc \in {"loop", "done"} /\ consumed # <<>>) => out.Body = JoinAmp(consumed)

\* three data values were consumed and Parse returned
C3_Witness ==
    /\ Succeeded
    /\ Len(consumed) = 3
    /\ consumed[1] # consumed[2]
    /\ out.Body = consumed[1] \o <<"&">> \o consumed[2] \o <<"&">> \o consumed[3]

\* the tokens of args that have one of the two scheme prefixes
RECURSIVE urlTokens(_)
urlTokens(as) ==
    IF as = <<>> THEN <<>>
    ELSE (IF isURL(Head(as)) THEN <<Head(as)>> ELSE <<>>) \o urlTokens(Tail(as))

\* C4, as claimed: only the first scheme-prefixed token sets the URL; a later one
\* leaves the URL and the rest of the model unchanged.
C4_FirstURLOnly ==
    (pc = "loop" /\ prev.did = "url" /\ prev.out.URL # Nil) => out = prev.out

\* C4, as amended: every scheme-prefixed token that parses sets the URL, replacing a
\* URL set earlier, and changes nothing else of the model or the pending state; the
\* URL of the returned model is that of the last scheme-prefixed token.
C4_LastURLWins ==
    /\ (pc = "loop" /\ prev.did = "url") =>
          /\ out.URL = <<urlParse(prev.tok).u>>
          /\ out.Method = prev.out.Method
          /\ out.Header = prev.out.Header
          /\ out.Body = prev.out.Body
          /\ state = prev.state
    /\ Succeeded =>
          LET us == urlTokens(args)
          IN  out.URL = (IF us = <<>> THEN Nil ELSE <<urlParse(us[Len(us)]).u>>)

\* two different URL tokens were handled, and the URL is the second one's
C4_Witness ==
    /\ Succeeded
    /\ Len(urlTokens(args)) >= 2
    /\ urlTokens(args)[1] = tURLa
    /\ urlTokens(args)[Len(urlTokens(args))] = tURLb
    /\ out.URL = <<[Scheme |-> <<"h","t","t","p","s">>, Rest |-> <<"b">>]>>

\* the flags of the documented flag table
RecognizedFlags ==
    {sDashA, sUserAgentFlag, sDashH, sHeader, sDashD, sData, sDataAscii, sDataRaw, sDataBinary,
     <<"-","-","d","a","t","a","-","u","r","l","e","n","c","o","d","e">>,
     sDashU, sUser, sDashI, sHead, sDashX, sRequest, sDashB, sCookieFlag, sCompressed}

\* a non-empty token that is neither a recognized flag nor a scheme-prefixed URL
Stray(a) ==
    a # <<>> /\ ~isURL(a) /\ a \notin RecognizedFlags

\* C5: in the blank state a stray token leaves url, method, headers, body and the
\* pending state unchanged; a command of stray tokens and URLs only yields method GET,
\* no headers and an empty body.
C5_StrayTokenIgnored ==
    /\ (pc = "loop" /\ prev.did # "none" /\ prev.state = stateBlank /\ Stray(prev.tok)) =>
          (out = prev.out /\ state = stateBlank)
    /\ (Succeeded /\ \A k \in DOMAIN args : Stray(args[k]) \/ isURL(args[k])) =>
          (out.Method = sGET /\ out.Header = EmptyHeader /\ out.Body = <<>>)

\* stray tokens around one URL were handled and the model holds the URL only
C5_Witness ==
    /\ Succeeded
    /\ Len(args) = 4
    /\ Cardinality({k \in DOMAIN args : isURL(args[k])}) = 1
    /\ Cardinality({k \in DOMAIN args : Stray(args[k])}) = 3
    /\ out = [newParsed EXCEPT !.URL = <<[Scheme |-> <<"h","t","t","p">>, Rest |-> <<"a">>]>>]

\* the data family of the documented flag table
DataFamily ==
    {sDashD, sData, sDataAscii, sDataRaw, sDataBinary}

\* C6: each of -d, --data, --data-ascii, --data-raw and --data-binary puts the
\* machine into the pending-data state, so that the value that follows is appended
\* to the body.
C6_DataFamilyPending ==
    /\ (pc = "loop" /\ prev.did # "none" /\ prev.tok \in DataFamily) => state = stateData
    /\ (Len(hist) >= 2 /\ hist[Len(hist) - 1].tok \in DataFamily /\ Stray(prev.tok)) =>
          (prev.did = "data" /\ out.Body # <<>>)

\* C7: --compressed adds Accept-Encoding: deflate, gzip if and only if no
\* Accept-Encoding header is present when the flag is handled, so that no value is
\* overridden or duplicated and any number of --compressed add at most one value.
C7_CompressedOnlyWhenAbsent ==
    (pc = "loop" /\ prev.did # "none" /\ prev.tok = sCompressed) =>
        out.Header = (IF sAcceptEncoding \in DOMAIN prev.out.Header
                      THEN prev.out.Header
                      ELSE prev.out.Header @@ (sAcceptEncoding :> <<sDeflateGzip>>))

\* s from its first to its last character that is not white space
Trimmed(s) ==
    LET ns == {k \in 1..Len(s) : ~isSpace(s[k])}
    IN  IF ns = {} THEN <<>>
        ELSE SubSeq(s, CHOOSE k \in ns : \A m \in ns : k <= m,
                       CHOOSE k \in ns : \A m \in ns : k >= m)

\* C8: a header value token is split at its first ":"; the name is the text before it
\* and the value all the text after it, further colons included, each without its
\* surrounding white space; Name:value and Name: value give the same header.
C8_HeaderSplit ==
    (pc = "loop" /\ prev.state = stateHeader /\ prev.did = "header") =>
        /\ \E j \in 1..Len(prev.tok) :
              /\ prev.tok[j] = ":"
              /\ \A m \in 1..(j - 1) : prev.tok[m] # ":"
              /\ out.Header = HeaderAdd(prev.out.Header,
                                        Trimmed(SubSeq(prev.tok, 1, j - 1)),
                                        Trimmed(SubSeq(prev.tok, j + 1, Len(prev.tok))))
        /\ prev.tok \in {tFieldTight, tFieldSpaced} =>
              out.Header = HeaderAdd(prev.out.Header, <<"A">>, <<"b">>)

\* the token " a : b:c " was consumed as a header: name a, value b:c
C8_Witness ==
    /\ pc = "loop"
    /\ prev.state = stateHeader
    /\ prev.did = "header"
    /\ prev.tok = tFieldColons
    /\ prev.out.Header = EmptyHeader
    /\ out.Header = (<<"A">> :> << <<"b",":","c">> >>)

\* C9: during flag interpretation only a malformed URL makes Parse fail; a header
\* value token without ":" does not abort the parse.
C9_OnlyMalformedURLFails ==
    (pc = "done" /\ prev.did # "none" /\ ~Succeeded) =>
        (Failed /\ isURL(prev.tok) /\ urlParse(prev.tok).err)

\* the values the header flags supplied under the name Content-Type, in order
RECURSIVE suppliedContentType(_)
suppliedContentType(h) ==
    IF h = <<>> THEN <<>>
    ELSE (IF /\ Head(h).did = "header"
             /\ ~parseField(Head(h).tok).panic
             /\ CanonicalMIMEHeaderKey(parseField(Head(h).tok).k) = sContentType
          THEN <<parseField(Head(h).tok).v>>
          ELSE <<>>) \o suppliedContentType(Tail(h))

\* the values of the model under the name Content-Type
contentTypeValues(h) ==
    IF sContentType \in DOMAIN h THEN h[sContentType] ELSE <<>>

\* C10: Parse adds no Content-Type of its own: the Content-Type values of the returned
\* model are exactly those the header flags supplied, with or without a body.
C10_NoContentTypeAdded ==
    Succeeded => contentTypeValues(ret.p[1].Header) = suppliedContentType(hist)

\* the tokens cmdToArgs hands to the rest of Parse
args0 ==
    cmdToArgs(cmd).args

\* a flag that takes a value: the token alone sets a pending state
takesValue(a) ==
    parseToken(newParsed, stateBlank, a).did = "flag"

\* the place of the last flag that takes a value, 0 when there is none
lastFlag(as) ==
    LET F == {k \in DOMAIN as : takesValue(as[k])}
    IN  IF F = {} THEN 0 ELSE CHOOSE k \in F : \A j \in F : j <= k

\* as without its k-th token
dropAt(as, k) ==
    SubSeq(as, 1, k - 1) \o SubSeq(as, k + 1, Len(as))

\* C11: when the tokens end while the value of a flag is pending, Parse succeeds and
\* returns the model the loop gives for the same tokens (file references already
\* replaced by the contents) without that flag; and a command
\* whose last token is a flag that takes a value succeeds whenever the tokens before
\* that flag do (a last data flag neither upgrades the method nor changes the body).
C11_TrailingFlagDiscarded ==
    /\ (pc = "done" /\ ret.kind = "return" /\ i >= Len(args) /\ ret.err = <<>>
            /\ state # stateBlank) =>
          /\ Succeeded
          /\ lastFlag(args) > 0
          /\ LET l == loopFrom(newParsed, stateBlank, dropAt(args, lastFlag(args)))
             IN  l.kind = "cont" /\ ret.p = <<postLoop(l.out)>>
    /\ (pc = "done" /\ cmdToArgs(cmd).kind = "ok" /\ takesValue(args0[Len(args0)])) =>
          LET q == parseArgs(files, SubSeq(args0, 1, Len(args0) - 1))
          IN  q.kind = "ok" => (Succeeded /\ state # stateBlank /\ ret.p = q.p)

\* curl -I -d returned: the data flag is pending, the method is still HEAD and the
\* body is empty
C11_Witness ==
    /\ Succeeded
    /\ args = <<sDashI, sDashD>>
    /\ state = stateData
    /\ ret.p[1].Method = sHEAD
    /\ ret.p[1].Body = <<>>

\* the token starts with http:// or https://
hasScheme(a) ==
    HasPrefix(a, sHttp) \/ HasPrefix(a, sHttps)

\* a token that is no URL, no flag of the table and no data parameter in glued form
plainWord(a) ==
    ~hasScheme(a) /\ a \notin RecognizedFlags /\ ~parseCurlDataArg(a).ok

Requested ==
    req.kind \in {"return", "panic"}

\* the *Parsed the caller holds
held ==
    ret.p[1]

\* C13: Request on a model whose URL is absent returns an error: no panic and no
\* request.
C13_NoURLIsAnError ==
    (Requested /\ held.URL = Nil) =>
        (req.kind = "return" /\ req.err # <<>> /\ req.req = Nil)

\* Request on the model Parse returns for curl example.com returned its error
C13_Witness ==
    /\ Requested
    /\ held = newParsed
    /\ held.URL = Nil
    /\ req = [kind |-> "return", req |-> Nil, err |-> <<"curlreq: invalid URL: ", "<nil>">>]

\* the request reads as the model says: the no-body marker exactly for an empty
\* body, the bytes of the body otherwise, and the headers of the model
bodyAndHeaderKept ==
    /\ (req.req[1].Body = NoBody) <=> (held.Body = <<>>)
    /\ readAll(req.req[1].Body) = held.Body
    /\ req.req[1].Header = held.Header

\* C14, as claimed: Request on a model with a URL yields a request with the no-body
\* marker exactly when the body is empty and a body that reads as the bytes of the
\* model otherwise, and with the method and the headers of the model.
C14_RequestCopiesModel ==
    (Requested /\ held.URL # Nil) =>
        /\ req.kind = "return" /\ req.err = <<>> /\ req.req # Nil
        /\ bodyAndHeaderKept
        /\ req.req[1].Method = held.Method

\* C14, amended: Request on a model with a URL returns an error and no request when
\* the method is neither empty nor an HTTP token; otherwise it returns a request
\* with the no-body marker exactly when the body is empty, a body that reads as the
\* bytes of the model otherwise (NUL and non-text bytes included), the headers of
\* the model, and its method, GET standing for an empty one.
C14_RequestOfValidMethod ==
    (Requested /\ held.URL # Nil) =>
        /\ req.kind = "return"
        /\ IF held.Method = <<>> \/ validMethod(held.Method)
           THEN /\ req.err = <<>> /\ req.req # Nil
                /\ bodyAndHeaderKept
                /\ req.req[1].Method = (IF held.Method = <<>> THEN sGET ELSE held.Method)
           ELSE req.err # <<>> /\ req.req = Nil

\* a request was built for a body of NUL, 0xFF and x, and reads as these bytes
C14_Witness ==
    /\ Requested
    /\ held.URL # Nil
    /\ held.Body = <<bNUL, bFF, "x">>
    /\ held.Header # EmptyHeader
    /\ req.req # Nil
    /\ req.req[1].Body # NoBody
    /\ readAll(req.req[1].Body) = <<bNUL, bFF, "x">>
    /\ req.req[1].Method = sPOST

\* MarshalJSON was called and returned a document
Marshalled ==
    doc.kind = "return" /\ doc.err = <<>>

\* the four-digit escapes a JSON reader meets in the documents of the model
runeBytes(h) ==
    IF h = <<"0","0","0","0">> THEN <<bNUL>>
    ELSE IF h = <<"0","0","2","6">> THEN <<"&">>
    ELSE IF h = <<"0","0","3","c">> THEN <<"<">>
    ELSE IF h = <<"0","0","3","e">> THEN <<">">>
    ELSE <<bEF, bBF, bBD>>

\* the bytes of the characters t of a JSON string, as json.Unmarshal reads them
RECURSIVE jsonUnescape(_)
jsonUnescape(t) ==
    IF t = <<>> THEN <<>>
    ELSE IF Head(t) # "\\" THEN <<Head(t)>> \o jsonUnescape(Tail(t))
    ELSE IF t[2] = "u" THEN runeBytes(SubSeq(t, 3, 6)) \o jsonUnescape(SubSeq(t, 7, Len(t)))
    ELSE <<t[2]>> \o jsonUnescape(SubSeq(t, 3, Len(t)))

\* the Go string a JSON string stands for
jsonUnquote(v) ==
    jsonUnescape(SubSeq(v, 2, Len(v) - 1))

\* the byte with the value n
byteAt(n) ==
    IF n >= 32 /\ n <= 126 THEN Ascii[n - 31]
    ELSE CHOOSE c \in {bNUL, bA9, bBD, bBF, bC3, bEF, bFF} : byteOf(c) = n

\* the six bits a character of the base64 alphabet stands for
sextet(c) ==
    PosIn(encodeStd, c) - 1

\* the bytes a padded base64 text stands for: every four characters give three
\* bytes, one or two when the group ends with "==" or "="
RECURSIVE base64Decode(_)
base64Decode(t) ==
    IF Len(t) < 4 THEN <<>>
    ELSE LET s1 == sextet(t[1])
             s2 == sextet(t[2])
             s3 == IF t[3] = "=" THEN 0 ELSE sextet(t[3])
             s4 == IF t[4] = "=" THEN 0 ELSE sextet(t[4])
         IN  <<byteAt(s1 * 4 + (s2 \div 16))>>
             \o (IF t[3] = "=" THEN <<>> ELSE <<byteAt((s2 % 16) * 16 + (s3 \div 4))>>)
             \o (IF t[4] = "=" THEN <<>> ELSE <<byteAt((s3 % 4) * 64 + s4)>>)
             \o base64Decode(SubSeq(t, 5, Len(t)))

sPlain == <<"p","l","a","i","n">>
sBase64 == <<"b","a","s","e","6","4">>

\* the body a reader of the document d gets: none without a body field, the text of
\* the field, or its base64 decoding when body_encoding says base64
decodedBody(d) ==
    IF "body" \notin DOMAIN d THEN <<>>
    ELSE IF "body_encoding" \in DOMAIN d /\ jsonUnquote(d["body_encoding"]) = sBase64
    THEN base64Decode(jsonUnquote(d["body"]))
    ELSE jsonUnquote(d["body"])

\* C15: for every body, decoding the body field of the document as its
\* body_encoding field says (as it stands for plain, from base64 for base64) gives
\* back the bytes of the model's body.
C15_BodyRoundTrip ==
    Marshalled => decodedBody(doc.doc) = held.Body

\* utf8.ValidString
RECURSIVE utf8Valid(_)
utf8Valid(b) ==
    IF b = <<>> THEN TRUE
    ELSE runeSize(b) > 0 /\ utf8Valid(SubSeq(b, runeSize(b) + 1, Len(b)))

\* C16: for a non-empty body the document has body_encoding plain and the body as
\* text when the bytes are valid UTF-8, and body_encoding base64 and the base64 of
\* the bytes when they are not.
C16_BodyEncoding ==
    (Marshalled /\ held.Body # <<>>) =>
        /\ {"body", "body_encoding"} \subseteq DOMAIN doc.doc
        /\ IF utf8Valid(held.Body)
           THEN /\ jsonUnquote(doc.doc["body_encoding"]) = sPlain
                /\ jsonUnquote(doc.doc["body"]) = held.Body
           ELSE /\ jsonUnquote(doc.doc["body_encoding"]) = sBase64
                /\ jsonUnquote(doc.doc["body"]) = base64Encode(held.Body)

\* C17: a document MarshalJSON returns has the fields url, method and header, with
\* an empty header object when the model has no headers, and has neither body nor
\* body_encoding when the model's body is empty.
C17_DocumentFields ==
    Marshalled =>
        /\ {"url", "method", "header"} \subseteq DOMAIN doc.doc
        /\ DOMAIN doc.doc["header"] = DOMAIN held.Header
        /\ jsonUnquote(doc.doc["url"]) = urlString(held.URL[1])
        /\ jsonUnquote(doc.doc["method"]) = held.Method
        /\ held.Body = <<>> => DOMAIN doc.doc = {"url", "method", "header"}

\* the document of a model with no headers and no body: {"url":...,"method":"GET",
\* "header":{}}
C17_Witness ==
    /\ Marshalled
    /\ held.Header = EmptyHeader
    /\ held.Body = <<>>
    /\ held.Method = sGET
    /\ DOMAIN doc.doc = {"url", "method", "header"}
    /\ DOMAIN doc.doc["header"] = {}
    /\ doc.doc["method"] = <<"\"", "G", "E", "T", "\"">>

\* @ followed by a path
fileRef(v) ==
    HasPrefix(v, <<"@">>) /\ Len(v) > 1

\* the path a file reference names
pathOf(v) ==
    SubSeq(v, 2, Len(v))

\* what the file reference rule makes of the value v
dereferenced(v) ==
    IF fileRef(v) /\ pathOf(v) \in DOMAIN files THEN files[pathOf(v)] ELSE v

\* C18: when the first token is a flag of the data family and the value after it
\* is @ followed by the path of a readable file, the token loop finds the contents
\* of that file in its place; a value that is @ alone or does not start with @ is
\* found as it was written.
C18_FileReference ==
    (pc = "loop" /\ Len(args0) >= 2 /\ args0[1] \in DataFamily
        /\ (fileRef(args0[2]) => pathOf(args0[2]) \in DOMAIN files)) =>
            (Len(args) >= 2 /\ args[1] = args0[1] /\ args[2] = dereferenced(args0[2]))

\* what holds of it: the rule for the flags parseCurlDataArg knows and files that
\* are not empty
FileReferenceOfKnownFlag ==
    (pc = "loop" /\ Len(args0) >= 2 /\ args0[1] \in DataFamily \ {sDataRaw}
        /\ (fileRef(args0[2]) => (pathOf(args0[2]) \in DOMAIN files /\ files[pathOf(args0[2])] # <<>>))) =>
            (Len(args) >= 2 /\ args[1] = args0[1] /\ args[2] = dereferenced(args0[2]))

\* the error names the path: its message holds the characters of the path in a row
names(err, path) ==
    \E k \in 1..Len(err) : SubSeq(err, k, k + Len(path) - 1) = path

\* C19: when the value of a data flag is @ followed by the path of a file that
\* cannot be read, Parse returns no model and an error that names the path.
C19_MissingFileFails ==
    (pc = "done" /\ Len(args0) >= 2 /\ args0[1] \in DataFamily
        /\ fileRef(args0[2]) /\ pathOf(args0[2]) \notin DOMAIN files) =>
            (Failed /\ names(ret.err, pathOf(args0[2])))

\* the flag of a data parameter in glued form (-dvalue, --flag=value), <<>> for
\* any other token
gluedFlag(a) ==
    IF \E f \in DataFamily \ {sDashD} : HasPrefix(a, f \o sEq)
    THEN CHOOSE f \in DataFamily \ {sDashD} : HasPrefix(a, f \o sEq)
    ELSE IF HasPrefix(a, sDashD) /\ Len(a) > 2 /\ a \notin DataFamily /\ ~HasPrefix(a, <<"-","-">>)
    THEN sDashD
    ELSE <<>>

\* the value of a data parameter in glued form
gluedValue(a) ==
    IF gluedFlag(a) = sDashD THEN SubSeq(a, 3, Len(a))
    ELSE SubSeq(a, Len(gluedFlag(a)) + 2, Len(a))

\* C20: a step of the scan at a glued data token whose value names a readable file
\* puts the bare flag and, after it, one new token with the contents of the file
\* in its place: the tokens before and after it stay as they are, the sequence is
\* one longer, and the scan goes on after the new token.
C20_GluedExpansion ==
    [][(pc = "expand" /\ i < Len(args) /\ gluedFlag(args[i + 1]) # <<>>
            /\ fileRef(gluedValue(args[i + 1]))
            /\ pathOf(gluedValue(args[i + 1])) \in DOMAIN files) =>
        (/\ args' = SubSeq(args, 1, i)
                     \o <<gluedFlag(args[i + 1]), files[pathOf(gluedValue(args[i + 1]))]>>
                     \o SubSeq(args, i + 2, Len(args))
         /\ Len(args') = Len(args) + 1
         /\ i' = i + 2
         /\ pc' = "expand")]_vars

\* the short flags that take a value, and the long flags of the data family
ShortValueFlags ==
    {sDashA, sDashH, sDashD, sDashU, sDashX, sDashB}

LongDataFlags ==
    DataFamily \ {sDashD}

\* the flag a glued token starts with, <<>> when the token is not glued
flagOfGlued(a) ==
    IF \E f \in LongDataFlags : HasPrefix(a, f \o sEq)
    THEN CHOOSE f \in LongDataFlags : HasPrefix(a, f \o sEq)
    ELSE IF Len(a) > 2 /\ SubSeq(a, 1, 2) \in ShortValueFlags
    THEN SubSeq(a, 1, 2)
    ELSE <<>>

\* the value glued to the flag
valueOfGlued(a) ==
    IF Len(flagOfGlued(a)) = 2 THEN SubSeq(a, 3, Len(a))
    ELSE SubSeq(a, Len(flagOfGlued(a)) + 2, Len(a))

\* the tokens as with every glued token written as flag and value
RECURSIVE separated(_)
separated(as) ==
    IF as = <<>> THEN <<>>
    ELSE (IF flagOfGlued(Head(as)) = <<>> THEN <<Head(as)>>
          ELSE <<flagOfGlued(Head(as)), valueOfGlued(Head(as))>>) \o separated(Tail(as))

\* how the call ended, and with which model
outcome ==
    [kind |-> IF ret.kind = "panic" THEN "panic" ELSE IF ret.err = <<>> THEN "ok" ELSE "error",
     p |-> ret.p]

\* C21: a command in which a value is glued to a short flag (-A, -H, -d, -u, -X, -b)
\* or, with =, to a long data flag, the value being literal, ends as the command
\* does in which each such token is written as the two tokens flag and value.
C21_SurfaceForms ==
    (pc = "done" /\ Len(cmd) >= 2 /\ cmd[1] = sCurl
        /\ \A k \in DOMAIN cmd : flagOfGlued(cmd[k]) # <<>> => ~fileRef(valueOfGlued(cmd[k]))) =>
            LET q == parseArgs(files, rewrite(separated(Tail(cmd))))
            IN  outcome = [kind |-> q.kind, p |-> q.p]

\* form encoding of the characters of the model: a blank becomes +, & and = are
\* percent-escaped, letters stay
RECURSIVE formEncode(_)
formEncode(t) ==
    IF t = <<>> THEN <<>>
    ELSE (IF Head(t) = " " THEN <<"+">>
          ELSE IF Head(t) = "&" THEN <<"%","2","6">>
          ELSE IF Head(t) = "=" THEN <<"%","3","D">>
          ELSE <<Head(t)>>) \o formEncode(Tail(t))

\* what a --data-urlencode value adds to the body, by its shape
urlencoded(v) ==
    IF Index(v, "=") >= 0
    THEN SubSeq(v, 1, Index(v, "=") + 1) \o formEncode(SubSeq(v, Index(v, "=") + 2, Len(v)))
    ELSE IF Index(v, "@") = 0
    THEN formEncode(files[pathOf(v)])
    ELSE IF Index(v, "@") > 0
    THEN SubSeq(v, 1, Index(v, "@")) \o <<"=">>
         \o formEncode(files[SubSeq(v, Index(v, "@") + 2, Len(v))])
    ELSE formEncode(v)

\* C22: the command curl --data-urlencode v has the body the shape of v gives:
\* content encoded whole; =content and name=content literal up to the first = and
\* encoded after it; @path and name@path the encoded contents of the file, after
\* name= for the latter.
C22_DataUrlencode ==
    (pc = "done" /\ Len(args0) = 2 /\ args0[1] = tDataUrlencode
        /\ args0[2] \in {tSpaced, tNameEq, tAtF, tNameAtF}) =>
            (Succeeded /\ ret.p[1].Body = urlencoded(args0[2]))

\* ---- C23 ----
\* the directory a parser is configured with, other than the one the process runs in
WorkDir == <<"/", "w">>

\* a path as the configured directory resolves it: an absolute path as given,
\* a relative one under the directory
resolve(wd, path) ==
    IF path # <<>> /\ path[1] = "/" THEN path ELSE wd \o <<"/">> \o path

\* C23: a relative path in a file reference is read relative to the parser's
\* configured working directory, and an absolute path is read as given: once
\* the references are expanded, the value of a leading -d @path is the
\* content of the file the configured directory resolves the path to
C23_WorkingDirectory ==
    (pc = "loop" /\ Len(args0) >= 2 /\ args0[1] = sDashD /\ fileRef(args0[2])
        /\ resolve(WorkDir, pathOf(args0[2])) \in DOMAIN files
        /\ files[resolve(WorkDir, pathOf(args0[2]))] # <<>>) =>
            (Len(args) >= 2 /\ args[2] = files[resolve(WorkDir, pathOf(args0[2]))])

\* the absolute half of C23 alone, which the code keeps
AbsolutePathAsGiven ==
    (pc = "loop" /\ Len(args0) >= 2 /\ args0[1] = sDashD /\ args0[2] = tAtAbs) =>
        (Len(args) >= 2 /\ args[2] = files[pathOf(tAtAbs)])

\* ---- C24 ----
\* the name and the value of a header token: the text before and after its first ":",
\* each without its surrounding white space
colonAt(t) ==
    CHOOSE j \in 1..Len(t) : t[j] = ":" /\ \A m \in 1..(j - 1) : t[m] # ":"

nameWritten(t) ==
    Trimmed(SubSeq(t, 1, colonAt(t) - 1))

valueWritten(t) ==
    Trimmed(SubSeq(t, colonAt(t) + 1, Len(t)))

\* a header token with a ":" was consumed by the last step
headerConsumed ==
    /\ pc = "loop"
    /\ prev.state = stateHeader
    /\ prev.did = "header"
    /\ \E j \in 1..Len(prev.tok) : prev.tok[j] = ":"

\* the name n with the first letter and every letter after a "-" in upper case and
\* the other letters in lower case
canonicalForm(n) ==
    [k \in 1..Len(n) |->
        IF k = 1 \/ n[k - 1] = "-" THEN ToUpper(n[k]) ELSE ToLower(n[k])]

\* the name under which http.Header keeps a header written with the name n
storedName(n) ==
    IF \A k \in 1..Len(n) : validHeaderFieldByte(n[k]) THEN canonicalForm(n) ELSE n

\* C24 as stated: a header supplied through -H/--header is stored under its name
\* exactly as written, letter case preserved, for every name
C24_NameAsWritten ==
    headerConsumed =>
        /\ nameWritten(prev.tok) \in DOMAIN out.Header
        /\ out.Header[nameWritten(prev.tok)]
               = (IF nameWritten(prev.tok) \in DOMAIN prev.out.Header
                  THEN prev.out.Header[nameWritten(prev.tok)] ELSE <<>>)
                 \o <<valueWritten(prev.tok)>>

\* C24 (amended): a header supplied through -H/--header is stored under the
\* canonical form of its name (first letter and letters after "-" in upper case, the
\* others in lower case) when the name holds only header token characters, and under
\* the name as written otherwise; no other name is added
C24_NameCanonical ==
    headerConsumed =>
        LET n == storedName(nameWritten(prev.tok))
        IN  /\ DOMAIN out.Header = DOMAIN prev.out.Header \cup {n}
            /\ out.Header[n]
                   = (IF n \in DOMAIN prev.out.Header THEN prev.out.Header[n] ELSE <<>>)
                     \o <<valueWritten(prev.tok)>>
            /\ \A m \in DOMAIN prev.out.Header \ {n} : out.Header[m] = prev.out.Header[m]

\* accept-encoding: br was consumed and is kept under Accept-Encoding, and no
\* header accept-encoding exists
C24_Witness ==
    /\ headerConsumed
    /\ prev.tok = tAElower
    /\ sAcceptEncoding \in DOMAIN out.Header
    /\ out.Header[sAcceptEncoding][Len(out.Header[sAcceptEncoding])] = <<"b", "r">>
    /\ nameWritten(tAElower) \notin DOMAIN out.Header

\* x y: c was consumed and is kept under the name x y, as written
NameWithBlankKept ==
    /\ headerConsumed
    /\ prev.tok = tFieldInner
    /\ <<"x", " ", "y">> \in DOMAIN out.Header

\* ---- C25 ----
\* C25: whenever Parse returns an error it returns no model at all, even if
\* earlier tokens had already populated method, headers or body
C25_NoModelOnError ==
    (ret.kind = "return" /\ ret.err # <<>>) => ret.p = Nil

\* a malformed URL met after a header, a method and a data value had been stored:
\* the error is returned without a model
C25_Witness ==
    /\ pc = "done"
    /\ ret.kind = "return"
    /\ ret.err # <<>>
    /\ ret.p = Nil
    /\ prev.did = "url"
    /\ \/ out.Header # EmptyHeader
       \/ out.Body # <<>>
       \/ out.Method # sGET

\* the other causes of an error: a command that is not a curl command, and a
\* file that cannot be read
ErrorBeforeLoop ==
    /\ pc = "done"
    /\ ret.kind = "return"
    /\ ret.err # <<>>
    /\ ret.p = Nil
    /\ hist = <<>>

\* ---- C26 ----
\* C26: after every successful parse the method is a non-empty string, for any
\* token sequence, -X/--request followed by an empty token and a bare -X included
C26_MethodNonEmpty ==
    Succeeded => ret.p[1].Method # <<>>

\* --request was followed by an empty token, or -X came with nothing glued to it:
\* the empty token was passed over with the method flag still pending
C26_Witness ==
    /\ Succeeded
    /\ \E k \in 1..(Len(args) - 1) : args[k] \in {sDashX, sRequest} /\ args[k + 1] = <<>>
    /\ \E k \in DOMAIN hist : hist[k].did = "empty"
    /\ ret.p[1].Method = sGET

\* a bare -X and then PUT: the empty half of -X is passed over and PUT is the method
BareXThenMethod ==
    /\ Succeeded
    /\ cmd = <<sCurl, sDashX, tPUT>>
    /\ args = <<sDashX, <<>>, tPUT>>
    /\ ret.p[1].Method = tPUT

\* ---- C29 ----
\* the values the header h holds under the name n
valuesOf(h, n) ==
    IF n \in DOMAIN h THEN h[n] ELSE <<>>

\* t is a padded base64 text: characters of the alphabet, filled up to a multiple
\* of four with at most two "=" at the end
paddedBase64(t) ==
    /\ Len(t) % 4 = 0
    /\ \A k \in 1..Len(t) :
          \/ t[k] \in Range(encodeStd)
          \/ t[k] = "=" /\ k >= Len(t) - 1 /\ \A m \in k..Len(t) : t[m] = "="

sTobiBasic ==
    <<"B","a","s","i","c"," ","d","G","9","i","a","T","p","m","Z","X","J","y","Z","X","Q","=">>

\* C29: a -u/--user value token adds exactly one header Authorization whose
\* value is "Basic " followed by the standard base64 encoding of the token taken
\* verbatim, and changes nothing else in the model
C29_BasicAuthorization ==
    (pc = "loop" /\ prev.did = "user") =>
        LET old == valuesOf(prev.out.Header, sAuthorization)
            new == valuesOf(out.Header, sAuthorization)
            v == new[Len(new)]
            e == SubSeq(v, Len(sBasic) + 1, Len(v))
        IN  /\ prev.state = stateUser
            /\ new = old \o <<v>>
            /\ SubSeq(v, 1, Len(sBasic)) = sBasic
            /\ paddedBase64(e)
            /\ Len(e) = 4 * ((Len(prev.tok) + 2) \div 3)
            /\ base64Decode(e) = prev.tok
            /\ prev.tok = tTobi => v = sTobiBasic
            /\ DOMAIN out.Header = DOMAIN prev.out.Header \cup {sAuthorization}
            /\ \A n \in DOMAIN prev.out.Header \ {sAuthorization} :
                  out.Header[n] = prev.out.Header[n]
            /\ out = [prev.out EXCEPT !.Header = out.Header]

\* -u tobi:ferret was consumed: Authorization: Basic dG9iaTpmZXJyZXQ=
C29_Witness ==
    /\ pc = "loop"
    /\ prev.did = "user"
    /\ prev.tok = tTobi
    /\ valuesOf(prev.out.Header, sAuthorization) = <<>>
    /\ out.Header = (sAuthorization :> <<sTobiBasic>>)

\* a second -u value: one more value under Authorization, the first one kept
SecondUserValue ==
    /\ pc = "loop"
    /\ prev.did = "user"
    /\ prev.tok = tUserOnly
    /\ valuesOf(prev.out.Header, sAuthorization) = <<sTobiBasic>>
    /\ Len(out.Header[sAuthorization]) = 2

\* ---- C30 ----
\* C30: the contents substituted for an @path data value are always consumed as
\* data and appended to the body, whatever the bytes are: after -d @path (or --data
\* @path) with a readable, non-empty file at the head of the command, the second
\* step of the loop has taken the contents as a data value, and they are the body
C30_ContentsAreData ==
    (pc = "loop" /\ i = 2 /\ Len(args0) >= 2 /\ args0[1] \in {sDashD, sData}
        /\ fileRef(args0[2]) /\ pathOf(args0[2]) \in DOMAIN files
        /\ files[pathOf(args0[2])] # <<>>) =>
            /\ prev.did = "data"
            /\ out.Body = files[pathOf(args0[2])]
            /\ out.URL = Nil
            /\ out.Method = sPOST

\* contents that are neither a URL nor a flag are consumed as data
PlainContentsAreData ==
    /\ pc = "loop"
    /\ i = 2
    /\ args0 = <<sDashD, tAtF>>
    /\ prev.did = "data"
    /\ out.Body = files[pathOf(tAtF)]

\* ---- C27 ----
\* what a finished call handed to its caller: how it ended, the error, and the
\* model as it was at the return
handed(c) ==
    [kind |-> calls[c].ret.kind, err |-> calls[c].ret.err, p |-> calls[c].ret.snap]

\* C27: parsing is deterministic: two parses of the same command against the
\* same file contents produce identical models (same url, method, headers, body)
C27_Deterministic ==
    \A c, d \in Calls :
        (calls[c].pc = "done" /\ calls[d].pc = "done" /\ calls[c].cmd = calls[d].cmd) =>
            handed(c) = handed(d)

\* curl -d @f was parsed twice: two Parsed values, each with method POST and body x
C27_Witness ==
    /\ \A c \in Calls : calls[c].pc = "done" /\ calls[c].cmd = <<sCurl, sDashD, tAtF>>
    /\ calls["a"].ret.p # calls["b"].ret.p
    /\ \A c \in Calls :
          /\ calls[c].ret.snap # Nil
          /\ calls[c].ret.snap[1].Method = sPOST
          /\ calls[c].ret.snap[1].Body = <<"x">>

\* ---- C28 ----
\* the call run alone: the tokens, and after k tokens of the loop the model and the
\* pending state
tokensAlone(c) ==
    expandFrom(files, cmdToArgs(calls[c].cmd).args, 0).args

loopAlone(c, k) ==
    loopFrom(newParsed, stateBlank, SubSeq(tokensAlone(c), 1, k))

\* what Parse returns for the arguments of c when it is the only call
returnedAlone(c) ==
    LET r == cmdToArgs(calls[c].cmd)
    IN  IF r.kind # "ok" THEN [kind |-> r.kind, p |-> Nil]
        ELSE LET q == parseArgs(files, r.args)
             IN  [kind |-> q.kind, p |-> q.p]

\* C28: concurrent Parse calls do not interfere: under every interleaving each
\* call has, at every step of its loop, the tokens, the pending state and the model
\* of the same call run alone, no Parsed belongs to two calls, and each call returns
\* the model it returns when run alone, which stays as returned while other calls run
C28_NoInterference ==
    /\ \A c, d \in Calls :
          (c # d /\ calls[c].out # NilAddr) => calls[c].out # calls[d].out
    /\ \A c \in Calls :
          /\ calls[c].pc = "loop" =>
                /\ calls[c].args = tokensAlone(c)
                /\ calls[c].state = loopAlone(c, calls[c].i).state
                /\ heap[calls[c].out] = loopAlone(c, calls[c].i).out
          /\ calls[c].pc = "done" =>
                /\ returnedAlone(c).kind
                      = (IF calls[c].ret.kind = "panic" THEN "panic"
                         ELSE IF calls[c].ret.err # <<>> THEN "error" ELSE "ok")
                /\ calls[c].ret.snap = returnedAlone(c).p
                /\ calls[c].ret.p # NilAddr => <<heap[calls[c].ret.p]>> = returnedAlone(c).p

\* two calls with different commands are both inside their loops, each after at
\* least one token, and a has built a body while b has not
C28_Witness ==
    /\ \A c \in Calls : calls[c].pc = "loop" /\ calls[c].i >= 1
    /\ calls["a"].cmd = <<sCurl, sDashD, tAtF>>
    /\ calls["b"].cmd = <<sCurl, tAtF, sDashD>>
    /\ calls["a"].i = 2
    /\ heap[calls["a"].out].Body = <<"x">>
    /\ heap[calls["b"].out].Body = <<>>

\* a call has returned its model while the other call is still in its loop
ReturnedWhileOtherRuns ==
    /\ calls["a"].pc = "done"
    /\ calls["a"].ret.p # NilAddr
    /\ calls["b"].pc = "loop"
    /\ calls["b"].i = 1

\* ---- C31 ----
\* the cases of the loop that consume a token as the value of a pending flag
ValueCases ==
    {"header", "user-agent", "data", "user", "method", "cookie"}

\* the flags of the table that act at once
ImmediateFlags ==
    {sDashI, sHead, sCompressed}

\* the pending state a flag of the table that takes a value sets
pendingOf(a) ==
    IF a \in {sDashA, sUserAgentFlag} THEN stateUA
    ELSE IF a \in {sDashH, sHeader} THEN stateHeader
    ELSE IF a \in {sDashU, sUser} THEN stateUser
    ELSE IF a \in {sDashX, sRequest} THEN stateMethod
    ELSE IF a \in {sDashB, sCookieFlag} THEN stateCookie
    ELSE stateData

\* the last step of the loop took, with a value pending, a token that is a URL or
\* one of the flags F: the token was not consumed as the value; a flag that takes
\* a value replaced the pending state, an immediate flag and a URL left it
notConsumed(F) ==
    (pc = "loop" /\ i >= 1 /\ prev.state # stateBlank
        /\ (prev.tok \in F \/ hasScheme(prev.tok))) =>
            /\ prev.did \notin ValueCases
            /\ IF hasScheme(prev.tok) \/ prev.tok \in ImmediateFlags
               THEN state = prev.state
               ELSE state = pendingOf(prev.tok) /\ out = prev.out
            /\ prev.tok \in {sDashI, sHead} => out = [prev.out EXCEPT !.Method = sHEAD]
            /\ hasScheme(prev.tok) =>
                  out.Method = prev.out.Method /\ out.Header = prev.out.Header
                     /\ out.Body = prev.out.Body

\* C31: a token that is a recognized flag or a scheme-prefixed URL is never
\* consumed as the value of a pending flag: a value-taking flag replaces the
\* pending state, an immediate flag acts and leaves it, a URL leaves it
C31_FlagNeverConsumed ==
    notConsumed(RecognizedFlags)

\* the flags the switch of Parse lists
SwitchFlags ==
    RecognizedFlags \ {sDataBinary, tDataUrlencode}

\* the same for the flags the switch of Parse lists, which the code keeps
SwitchFlagNeverConsumed ==
    notConsumed(SwitchFlags)

\* a value-taking flag met while another value was pending
FlagWhilePending ==
    /\ pc = "loop"
    /\ i >= 1
    /\ prev.state = stateData
    /\ prev.tok = sDashH
    /\ state = stateHeader

\* a URL met while a data value was pending, and the next token consumed as data
ValueAfterURL ==
    /\ pc = "loop"
    /\ i >= 3
    /\ args[i - 1] = tURLa
    /\ hist[i - 1].did = "url"
    /\ prev.state = stateData
    /\ prev.did = "data"

\* ---- C32 ----
\* C32: each value-taking flag consumes exactly one value token: right after a
\* pending value is consumed the state is blank, so the next token that is neither
\* a flag nor a URL is ignored and is added to no header, the method or the body
C32_OneValuePerFlag ==
    /\ (pc = "loop" /\ i >= 1 /\ prev.did \in ValueCases) =>
          /\ prev.state # stateBlank
          /\ state = stateBlank
    /\ (pc = "loop" /\ i >= 2 /\ hist[i - 1].did \in ValueCases /\ Stray(prev.tok)) =>
          /\ prev.did = "ignored"
          /\ out = prev.out
          /\ state = stateBlank

\* a cookie value was consumed and the word after it was ignored
C32_Witness ==
    /\ pc = "loop"
    /\ i >= 2
    /\ hist[i - 1].did = "cookie"
    /\ Stray(prev.tok)
    /\ prev.did = "ignored"
    /\ out = prev.out
    /\ sCookie \in DOMAIN out.Header
    /\ Len(out.Header[sCookie]) = 1

\* the same after a data value: the second word is not appended to the body
SecondWordNotData ==
    /\ pc = "loop"
    /\ i = 3
    /\ args[1] = sDashD
    /\ hist[2].did = "data"
    /\ prev.did = "ignored"
    /\ out.Body = args[2]

\* ---- C33 ----
\* v is a file reference to an existing empty file
emptyFileRef(v) ==
    fileRef(v) /\ pathOf(v) \in DOMAIN files /\ files[pathOf(v)] = <<>>

\* the data flags that both the expansion and the loop of Parse know
ExpandedDataFlags ==
    {sDashD, sData, sDataAscii}

\* C33: a data value @path that names an existing empty file contributes the
\* file's empty contents: the text @path is never consumed as the data value of
\* -d, --data or --data-ascii, and a command made of such a flag and @path alone
\* returns an empty body (the body is non-empty only if a data flag contributed
\* non-empty content)
C33_EmptyFileEmptyBody ==
    /\ (pc = "loop" /\ i >= 2 /\ prev.did = "data" /\ args[i - 1] \in ExpandedDataFlags) =>
          ~emptyFileRef(prev.tok)
    /\ (Succeeded /\ Len(args0) = 2 /\ args0[1] \in ExpandedDataFlags
            /\ emptyFileRef(args0[2])) =>
          ret.p[1].Body = <<>>

\* ---- C34 ----
\* the method the steps h of the loop leave, from the method m: -I/--head gives
\* HEAD, a method value gives that value, a data value upgrades GET and HEAD to POST
RECURSIVE methodAfter(_, _)
methodAfter(h, m) ==
    IF h = <<>> THEN m
    ELSE methodAfter(Tail(h),
             IF Head(h).did = "head" THEN sHEAD
             ELSE IF Head(h).did = "method" THEN Head(h).tok
             ELSE IF Head(h).did = "data" /\ m \in {sGET, sHEAD} THEN sPOST
             ELSE m)

\* C34: the upgrade to POST happens only when a data value is consumed and is
\* not applied again afterwards: a -I/--head or -X/--request processed after the
\* data sets the method to HEAD or to the given value, body or no body, and the
\* method of the returned model is the one the last method-affecting token left
C34_LastMethodTokenDecides ==
    /\ (pc = "loop" /\ i >= 1 /\ prev.did = "head") => out.Method = sHEAD
    /\ (pc = "loop" /\ i >= 1 /\ prev.did = "method") => out.Method = prev.tok
    /\ (pc = "loop" /\ i >= 1 /\ prev.did \notin {"head", "method", "data"}) =>
          out.Method = prev.out.Method
    /\ Succeeded => ret.p[1].Method = methodAfter(hist, sGET)

\* -I came after a data value: the model is returned with method HEAD and a body
C34_Witness ==
    /\ Succeeded
    /\ \E k \in DOMAIN hist :
          /\ hist[k].did = "data"
          /\ \E m \in (k + 1)..Len(hist) : hist[m].did = "head"
          /\ \A m \in (k + 1)..Len(hist) : hist[m].did \notin {"data", "method"}
    /\ ret.p[1].Method = sHEAD
    /\ ret.p[1].Body # <<>>

\* -X PUT came after a data value: method PUT with a body
MethodValueAfterData ==
    /\ Succeeded
    /\ Len(hist) >= 3
    /\ hist[2].did = "data"
    /\ hist[Len(hist)].did = "method"
    /\ ret.p[1].Method = tPUT
    /\ ret.p[1].Body # <<>>

\* ---- C35 ----
\* the glued data tokens among the tokens as
gluedData(as) ==
    {k \in DOMAIN as : parseCurlDataArg(as[k]).ok /\ parseCurlDataArg(as[k]).inline}

\* during the scan the tokens from the scan index on are the last tokens of the
\* original sequence, untouched, and there is at most one more token than at
\* the start for each glued data token
scanSound ==
    /\ pc = "expand" =>
          /\ i <= Len(args)
          /\ Len(args) - i <= Len(args0)
          /\ SubSeq(args, i + 1, Len(args))
                = SubSeq(args0, Len(args0) - (Len(args) - i) + 1, Len(args0))
    /\ pc \in {"expand", "loop"} =>
          /\ Len(args) >= Len(args0)
          /\ Len(args) <= Len(args0) + Cardinality(gluedData(args0))

\* an iteration that stays in the scan moves the index on by one, or by two after
\* an insertion or a separate flag and value
scanAdvances ==
    (pc = "expand" /\ pc' = "expand") =>
        /\ i' \in {i + 1, i + 2}
        /\ Len(args') \in {Len(args), Len(args) + 1}
        /\ Len(args') - i' < Len(args) - i
        /\ Len(args') = Len(args) + 1 => i' = i + 2
        /\ (parseCurlDataArg(args[i + 1]).ok /\ ~parseCurlDataArg(args[i + 1]).inline) =>
              i' = i + 2

\* C35: the data-expansion scan terminates for every finite token sequence:
\* each iteration advances the scan index by at least one (by two after an insertion
\* or a separate flag/value pair), every original token is examined at most once,
\* and the result has at most one extra token per glued data token
C35_ScanTerminates ==
    /\ []scanSound
    /\ [][scanAdvances]_vars
    /\ (pc = "expand") ~> (pc # "expand")

\* the scan of curl -d@f -d @f is over: one token was inserted after the glued
\* flag, the value of the separate flag was replaced in place
C35_Witness ==
    /\ pc = "loop"
    /\ args0 = <<tDAtF, sDashD, tAtF>>
    /\ args = <<sDashD, <<"x">>, sDashD, <<"x">> >>

====
